---------------------------- MODULE ClientSession ----------------------------
(***************************************************************************)
(* DlmsClient (src/dlms/client/client.cpp) on top of TcpTransport          *)
(* (src/dlms/transport/transport.cpp), the TCP stream that carries the     *)
(* answers, and the meter at its other end.                                *)
(*                                                                         *)
(* The client is single threaded and every call blocks, so the only        *)
(* concurrency is between a call and the network: send_and_receive is cut  *)
(* in two steps, ::send and then poll/::recv, and answers may arrive, late *)
(* or in pieces, between any two steps.  The bytes of a frame are          *)
(* abstracted to Parts pieces; what the code can tell about a chunk of     *)
(* bytes is whether it is exactly one frame and whether it starts with the *)
(* opening flag of one.                                                    *)
(***************************************************************************)
EXTENDS Integers, Sequences

CONSTANTS
    Parts,        \* pieces a frame may be split into on its way
    BufferParts,  \* pieces that fit in the 4096-byte receive buffer
    SeqMod,       \* sequence numbers wrap at SeqMod; & 0x07 in the code: 8
    MaxRequests   \* bound: frames sent over one socket (a DISC may follow)

ASSUME SessionAssumption ==
    /\ Parts \in Nat \ {0}
    /\ BufferParts \in Nat \ {0}
    /\ SeqMod \in Nat \ {0}
    /\ MaxRequests \in Nat

VARIABLES
    transportType, \* config_.transport_type, never assigned after construction
    transport,     \* transport_: null, a serial one, or a TCP one, whose
                   \* socket_fd_ is INVALID_SOCK ("invalid") or not ("open")
    connected,     \* connected_
    sendSeq,       \* send_seq_
    recvSeq,       \* recv_seq_
    phase,         \* where the client is: between calls, about to ::send,
                   \* blocked in poll/::recv, killed by a signal, destroyed
    call,          \* the call in progress, or the last one and its result
    requests,      \* the frames given to ::send on this socket, and the
                   \* answer each one got
    stream,        \* the pieces of answers that reached this socket
    readPos,       \* how many of them ::recv has returned
    peer           \* the other end of the socket, as this host sees it

client == <<transportType, transport, connected, sendSeq, recvSeq>>
socket == <<stream, readPos, peer>>
vars == <<client, phase, call, requests, socket>>

Services == {"get", "set", "action"}
Ops == {"connect", "disconnect", "destroy"} \union Services
Errors == {"ConnectionError", "NotSupported", "Timeout", "InvalidData",
           "InvalidTag"}
Results == {"ok", "pending"} \union Errors
Frames == {"SNRM", "DISC", "I"}
SeqNumbers == 0 .. SeqMod - 1

Request == [frame : Frames, ns : SeqNumbers, from : Nat, whole : BOOLEAN]
Piece == [req : Nat \ {0}, part : 1 .. Parts, frame : {"UA", "DM", "I"}]

(***************************************************************************)
(* Constructing the client only copies the configuration.                  *)
(***************************************************************************)
Init ==
    /\ transportType \in {"tcp", "serial"}
    /\ transport = "null"
    /\ connected = FALSE
    /\ sendSeq = 0
    /\ recvSeq = 0
    /\ phase = "idle"
    /\ call = [op |-> "disconnect", up |-> FALSE, res |-> "ok"]
    /\ requests = <<>>
    /\ stream = <<>>
    /\ readPos = 0
    /\ peer = "absent"

(***************************************************************************)
(* Calls: how they start and how they return.                              *)
(***************************************************************************)
Start(op) == call' = [op |-> op, up |-> connected, res |-> "pending"]

Refuse(op, res) ==  \* the call returns in the step that starts it
    /\ call' = [op |-> op, up |-> connected, res |-> res]
    /\ phase' = "idle"

Return(res) ==
    /\ call' = [call EXCEPT !.res = res]
    /\ phase' = "idle"

(***************************************************************************)
(* closesocket: what was received and not read is gone with the socket.    *)
(***************************************************************************)
CloseSocket ==
    /\ requests' = <<>>
    /\ stream' = <<>>
    /\ readPos' = 0
    /\ peer' = "absent"

(***************************************************************************)
(* DlmsClient::connect.  A new transport replaces the old one, whose       *)
(* destructor closes its socket; connected_ keeps its value on every error.*)
(***************************************************************************)
ConnectSerial ==
    /\ phase = "idle"
    /\ transportType = "serial"
    /\ transport' = "serial"
    /\ Refuse("connect", "NotSupported")
    /\ UNCHANGED <<transportType, connected, sendSeq, recvSeq, requests, socket>>

ConnectFails ==  \* ::socket fails, or ::connect fails and the fd stays open
    /\ phase = "idle"
    /\ transportType = "tcp"
    /\ transport' \in {"invalid", "open"}
    /\ CloseSocket
    /\ Refuse("connect", "ConnectionError")
    /\ UNCHANGED <<transportType, connected, sendSeq, recvSeq>>

KeepStream ==  \* mutation: a new session on what the old socket received
    /\ phase = "idle"
    /\ transportType = "tcp"
    /\ transport' = "open"
    /\ requests' = <<>>
    /\ peer' = "up"
    /\ Start("connect")
    /\ phase' = "send"
    /\ UNCHANGED <<transportType, connected, sendSeq, recvSeq, stream, readPos>>

KeepSocket ==  \* mutation: connect() sends SNRM again on a socket still open
    /\ phase = "idle"
    /\ transportType = "tcp"
    /\ transport' = "open"
    /\ peer' = "up"
    /\ Start("connect")
    /\ phase' = "send"
    /\ UNCHANGED <<transportType, connected, sendSeq, recvSeq, requests,
                   stream, readPos>>

ConnectOpens ==
    /\ phase = "idle"
    /\ transportType = "tcp"
    /\ transport' = "open"
    /\ requests' = <<>>
    /\ stream' = <<>>
    /\ readPos' = 0
    /\ peer' = "up"
    /\ Start("connect")
    /\ phase' = "send"
    /\ UNCHANGED <<transportType, connected, sendSeq, recvSeq>>

(***************************************************************************)
(* DlmsClient::disconnect, and the destructor, which calls it and then     *)
(* destroys the transport.  DISC is sent only when connected_ is set.      *)
(***************************************************************************)
TransportAfter(op) ==
    CASE op = "destroy" -> "null"
      [] transport = "open" -> "invalid"
      [] OTHER -> transport

PhaseAfter(op) == IF op = "destroy" THEN "destroyed" ELSE "idle"

DisconnectNow(op) ==
    /\ phase = "idle"
    /\ ~(connected /\ transport = "open")
    /\ transport' = TransportAfter(op)
    /\ connected' = FALSE
    /\ CloseSocket
    /\ call' = [op |-> op, up |-> connected, res |-> "ok"]
    /\ phase' = PhaseAfter(op)
    /\ UNCHANGED <<transportType, sendSeq, recvSeq>>

DisconnectStart(op) ==
    /\ phase = "idle"
    /\ connected
    /\ transport = "open"
    /\ Start(op)
    /\ phase' = "send"
    /\ UNCHANGED <<client, requests, socket>>

KeepConnected ==  \* mutation: connected_ is not reset
    /\ transport' = TransportAfter(call.op)
    /\ connected' = connected
    /\ CloseSocket
    /\ call' = [call EXCEPT !.res = "ok"]
    /\ phase' = PhaseAfter(call.op)
    /\ UNCHANGED <<transportType, sendSeq, recvSeq>>

FinishDisconnect ==
    /\ transport' = TransportAfter(call.op)
    /\ connected' = FALSE
    /\ CloseSocket
    /\ call' = [call EXCEPT !.res = "ok"]
    /\ phase' = PhaseAfter(call.op)
    /\ UNCHANGED <<transportType, sendSeq, recvSeq>>

(***************************************************************************)
(* get, set and action: send_hdlc asks only for a transport_, and the      *)
(* transport only for a valid descriptor; connected_ is not looked at.     *)
(***************************************************************************)
ServiceRefused(op) ==
    /\ phase = "idle"
    /\ transport # "open"
    /\ Refuse(op, IF transport = "serial" THEN "NotSupported"
                                          ELSE "ConnectionError")
    /\ UNCHANGED <<client, requests, socket>>

ServiceStart(op) ==
    /\ phase = "idle"
    /\ transport = "open"
    /\ Len(requests) < MaxRequests
    /\ Start(op)
    /\ phase' = "send"
    /\ UNCHANGED <<client, requests, socket>>

(***************************************************************************)
(* TcpTransport::send_and_receive, first half.  The result of ::send is    *)
(* ignored.  On a socket that never connected or was reset, ::send without *)
(* MSG_NOSIGNAL raises SIGPIPE, which kills the process unless the         *)
(* application ignores it; then the code goes on to poll.                  *)
(***************************************************************************)
FrameOf(op) ==
    CASE op = "connect" -> "SNRM"
      [] op \in {"disconnect", "destroy"} -> "DISC"
      [] op \in Services -> "I"

NewRequest == [frame |-> FrameOf(call.op),
               ns |-> IF call.op \in Services THEN sendSeq ELSE 0,
               from |-> 0,
               whole |-> FALSE]

Send ==
    /\ phase = "send"
    /\ requests' = Append(requests, NewRequest)
    /\ phase' = "wait"
    /\ UNCHANGED <<client, call, socket>>

Killed ==
    /\ phase = "send"
    /\ peer \in {"absent", "reset"}
    /\ phase' = "killed"
    /\ UNCHANGED <<client, call, requests, socket>>

NextSeqUnbounded(n) == n + 1  \* mutation: & 0x07 is missing
NextSeq(n) == (n + 1) % SeqMod

(***************************************************************************)
(* Second half, and what each caller does with the outcome.  An error:     *)
(* disconnect ignores it, the other calls return it.                       *)
(***************************************************************************)
FailCounts(err) ==  \* mutation: send_seq_ moves before the early return
    \/ /\ call.op \in {"disconnect", "destroy"}
       /\ FinishDisconnect
    \/ /\ call.op \in {"connect"} \union Services
       /\ Return(err)
       /\ sendSeq' = NextSeq(sendSeq)
       /\ UNCHANGED <<transportType, transport, connected, recvSeq, requests, socket>>

Fail(err) ==
    \/ /\ call.op \in {"disconnect", "destroy"}
       /\ FinishDisconnect
    \/ /\ call.op \in {"connect"} \union Services
       /\ Return(err)
       /\ UNCHANGED <<client, requests, socket>>

RetryForever ==  \* mutation: poll is repeated after a timeout
    /\ phase = "wait"
    /\ readPos = Len(stream)
    /\ peer = "up"
    /\ UNCHANGED vars

PollTimeout ==
    /\ phase = "wait"
    /\ readPos = Len(stream)
    /\ peer = "up"
    /\ Fail("Timeout")

RecvError ==
    /\ phase = "wait"
    /\ \/ peer \in {"absent", "reset"}
       \/ peer = "closed" /\ readPos = Len(stream)
    /\ Fail("ConnectionError")

(***************************************************************************)
(* ::recv returns everything that has arrived, up to the buffer's size: a  *)
(* part of a frame, one frame, several.  ChunkIsFrame is what              *)
(* HdlcFrame::from_bytes accepts: the checks of its flags and FCS pass     *)
(* exactly when the chunk is one frame, of whatever type.                  *)
(***************************************************************************)
Available == Len(stream) - readPos
ChunkSize == IF Available < BufferParts THEN Available ELSE BufferParts
ChunkAligned == stream[readPos + 1].part = 1
ChunkIsFrame == ChunkAligned /\ ChunkSize = Parts

NoteAnswer ==
    requests' = [requests EXCEPT
                    ![Len(requests)].from = stream[readPos + 1].req,
                    ![Len(requests)].whole = ChunkIsFrame]

Peek == UNCHANGED socket  \* mutation: the bytes stay in the socket
Consume ==
    /\ readPos' = readPos + ChunkSize
    /\ UNCHANGED <<stream, peer>>

ConnectUnchecked ==  \* mutation: connected_ is set whatever was received
    /\ call.op = "connect"
    /\ connected' = TRUE
    /\ sendSeq' = 0
    /\ recvSeq' = 0
    /\ Return(IF ChunkIsFrame THEN "ok" ELSE "InvalidData")
    /\ UNCHANGED <<transportType, transport>>
    /\ NoteAnswer
    /\ Consume

RecvConnect ==
    /\ call.op = "connect"
    /\ IF ChunkIsFrame
       THEN /\ connected' = TRUE
            /\ sendSeq' = 0
            /\ recvSeq' = 0
            /\ Return("ok")
       ELSE /\ Return("InvalidData")
            /\ UNCHANGED <<connected, sendSeq, recvSeq>>
    /\ UNCHANGED <<transportType, transport>>
    /\ NoteAnswer
    /\ Consume

(***************************************************************************)
(* set reports success whatever came back.  get and action decode the raw  *)
(* chunk as A-XDR: the flag 0x7E that opens a frame is no A-XDR tag, and   *)
(* bytes from the middle of a frame decode to a value or to some error     *)
(* (InvalidTag stands for every error of the decoder).                     *)
(***************************************************************************)
ServiceResult(op) ==
    CASE op = "set" -> {"ok"}
      [] op # "set" /\ ChunkAligned -> {"InvalidTag"}
      [] op # "set" /\ ~ChunkAligned -> {"ok", "InvalidTag"}

RecvService ==
    /\ call.op \in Services
    /\ sendSeq' = NextSeq(sendSeq)
    /\ \E res \in ServiceResult(call.op) : Return(res)
    /\ UNCHANGED <<transportType, transport, connected, recvSeq>>
    /\ NoteAnswer
    /\ Consume

RecvDisconnect ==  \* the answer to DISC is not looked at
    /\ call.op \in {"disconnect", "destroy"}
    /\ FinishDisconnect

Recv ==
    /\ phase = "wait"
    /\ Available > 0
    /\ RecvConnect \/ RecvService \/ RecvDisconnect

(***************************************************************************)
(* The meter and the network (external).  The meter answers requests in    *)
(* their order with at most one frame each, at any later time or never; it *)
(* accepts SNRM with UA or refuses it with DM; it may close the connection *)
(* or reset it.                                                            *)
(***************************************************************************)
AnswerTo(frame) ==
    CASE frame = "SNRM" -> {"UA", "DM"}
      [] frame = "DISC" -> {"UA"}
      [] frame = "I" -> {"I"}

MidFrame == stream # <<>> /\ stream[Len(stream)].part < Parts
LastAnswered == IF stream = <<>> THEN 0 ELSE stream[Len(stream)].req

AnswerStarts ==
    /\ peer = "up"
    /\ ~MidFrame
    /\ \E r \in LastAnswered + 1 .. Len(requests) :
         \E f \in AnswerTo(requests[r].frame) :
            stream' = Append(stream, [req |-> r, part |-> 1, frame |-> f])
    /\ UNCHANGED <<client, phase, call, requests, readPos, peer>>

AnswerContinues ==
    /\ peer = "up"
    /\ MidFrame
    /\ stream' = Append(stream, [stream[Len(stream)] EXCEPT !.part = @ + 1])
    /\ UNCHANGED <<client, phase, call, requests, readPos, peer>>

PeerCloses ==
    /\ peer = "up"
    /\ peer' = "closed"
    /\ UNCHANGED <<client, phase, call, requests, stream, readPos>>

PeerResets ==
    /\ peer \in {"up", "closed"}
    /\ peer' = "reset"
    /\ UNCHANGED <<client, phase, call, requests, stream, readPos>>

Ended ==  \* the client object, or its process, is gone
    /\ phase \in {"killed", "destroyed"}
    /\ UNCHANGED vars

Answer == RecvError \/ Recv
ClientStep == Send \/ PollTimeout \/ Answer

Next ==
    \/ ConnectSerial \/ ConnectFails \/ ConnectOpens
    \/ \E op \in {"disconnect", "destroy"} : DisconnectNow(op) \/ DisconnectStart(op)
    \/ \E op \in Services : ServiceRefused(op) \/ ServiceStart(op)
    \/ ClientStep \/ Killed
    \/ AnswerStarts \/ AnswerContinues \/ PeerCloses \/ PeerResets
    \/ Ended

Spec == Init /\ [][Next]_vars

(***************************************************************************)
(* ::send does not block (frames are small), and poll returns at the       *)
(* latest after timeout_ms: a call that can take its next step takes it.   *)
(* The user need not call anything, and the meter need not answer.         *)
(***************************************************************************)
FairSpec == Spec /\ WF_vars(ClientStep)

-----------------------------------------------------------------------------
TypeOK ==
    /\ transportType \in {"tcp", "serial"}
    /\ transport \in {"null", "serial", "invalid", "open"}
    /\ connected \in BOOLEAN
    /\ sendSeq \in SeqNumbers
    /\ recvSeq \in SeqNumbers
    /\ phase \in {"idle", "send", "wait", "killed", "destroyed"}
    /\ call \in [op : Ops, up : BOOLEAN, res : Results]
    /\ requests \in Seq(Request)
    /\ stream \in Seq(Piece)
    /\ readPos \in Nat
    /\ peer \in {"absent", "up", "closed", "reset"}

(***************************************************************************)
(* Frame order.  A connection is opened by one SNRM, the first frame sent  *)
(* on it and never repeated, and DISC is the last frame sent on it:        *)
(* whatever calls the user makes, in whatever order, no service request    *)
(* precedes the SNRM or follows the DISC (connect, disconnect, send_hdlc). *)
(***************************************************************************)
FrameOrder ==
    peer # "absent" =>
        \A i \in 1 .. Len(requests) :
            /\ requests[i].frame = "SNRM" <=> i = 1
            /\ requests[i].frame = "DISC" => i = Len(requests) /\ phase = "wait"

(***************************************************************************)
(* Answers in order.  What a call reads never comes from a request sent    *)
(* after it, nor from an older request than what an earlier call on the    *)
(* socket read; an answer that was read whole is never read again, however *)
(* the pieces of late answers mix with the calls (send_and_receive).       *)
(***************************************************************************)
Answered(i) == requests[i].from # 0

AnswersInOrder ==
    \A i \in 1 .. Len(requests) :
        /\ requests[i].from <= i
        /\ \A j \in i + 1 .. Len(requests) :
             Answered(i) /\ Answered(j) =>
                /\ requests[i].from <= requests[j].from
                /\ requests[i].whole => requests[i].from < requests[j].from

(***************************************************************************)
(* In step.  As long as every call on the socket has read exactly the      *)
(* answer to its own request, the next call reads from its own answer or   *)
(* from none.  (After one timeout, or one answer read in pieces, the code  *)
(* gives no such promise: see SetNeedsConnection.)                         *)
(***************************************************************************)
Own(i) == requests[i].from = i /\ requests[i].whole

InStep ==
    \A i \in 1 .. Len(requests) :
        (\A j \in 1 .. i - 1 : Own(j)) => requests[i].from \in {0, i}

(***************************************************************************)
(* Sequence numbers.  On a connection that connect() set up, N(S) of the   *)
(* I frames starts at 0, goes up by one modulo 8 after each exchange that  *)
(* read something, and is used again after each exchange that did not      *)
(* (send_hdlc: the increment comes after the early return), and send_seq_  *)
(* is the next number in that chain.                                       *)
(***************************************************************************)
NsAfter(i, r) ==  \* the number after the i-th request, r
    IF i = 1 THEN 0 ELSE IF r.from # 0 THEN NextSeq(r.ns) ELSE r.ns

Exchanges == IF phase = "wait" THEN Len(requests) - 1 ELSE Len(requests)

SequenceNumbers ==
    peer # "absent" /\ requests # <<>> /\ Own(1) =>
        /\ \A i \in 2 .. Len(requests) :
             requests[i].frame = "I" =>
                requests[i].ns = NsAfter(i - 1, requests[i - 1])
        /\ Exchanges > 0 => sendSeq = NsAfter(Exchanges, requests[Exchanges])

(***************************************************************************)
(* connected_ is set only by a connect() that read, in one piece, the      *)
(* answer to the SNRM it has just sent: an answer that an earlier          *)
(* connection left unread never completes a connect (the new transport_).  *)
(***************************************************************************)
ConnectReadsItsAnswer ==
    [][~connected /\ connected' =>
        /\ call.op = "connect"
        /\ Len(requests') = 1 /\ Own(1)'
        /\ readPos' = Parts]_vars

(***************************************************************************)
(* After disconnect() nothing of the session survives: it is not           *)
(* connected, the descriptor is closed, and every service is refused       *)
(* without a byte being sent until the next connect(), which starts from   *)
(* an empty stream.                                                        *)
(***************************************************************************)
Down == ~connected /\ transport # "open"

DisconnectEndsSession ==
    /\ phase \in {"idle", "destroyed"} /\ call.op \in {"disconnect", "destroy"}
            => Down
    /\ Down => requests = <<>> /\ stream = <<>> /\ readPos = 0

(***************************************************************************)
(* Every call returns, unless the process is killed: nothing the meter     *)
(* does or fails to do keeps a call blocked (poll with timeout_ms).        *)
(***************************************************************************)
InCall == phase \in {"send", "wait"}

CallReturns == InCall ~> ~InCall

(***************************************************************************)
(* The interface: the client implements ClientApi, which knows nothing of  *)
(* frames and answers; a link is an open descriptor.                       *)
(***************************************************************************)
Api == INSTANCE ClientApi WITH
    up <- connected,
    linked <- transport = "open",
    call <- [op |-> call.op, res |-> call.res],
    gone <- phase \in {"killed", "destroyed"}

ApiSpec == Api!Spec

(***************************************************************************)
(* The inductive invariant.  The properties above are not inductive: that  *)
(* a late answer is older than the next one rests on how pieces lie in the *)
(* stream, and that a call in step reads its own answer rests on where the *)
(* previous call stopped reading.                                          *)
(***************************************************************************)
Pieces == 1 .. Len(stream)

StreamShape ==  \* answers lie whole, one after the other, in request order
    /\ readPos <= Len(stream)
    /\ peer = "absent" => stream = <<>>
    /\ \A p \in Pieces : stream[p].req <= Len(requests)
    /\ \A p, q \in Pieces :
         p < q => /\ stream[p].req <= stream[q].req
                  /\ stream[p].part = Parts => stream[p].req < stream[q].req
    /\ \A p, q \in Pieces :
         p <= q /\ q - p <= Parts - stream[p].part =>
            /\ stream[q].req = stream[p].req
            /\ stream[q].part = stream[p].part + (q - p)

ReadSoFar ==  \* every answer noted comes from a piece already read
    \A i \in 1 .. Len(requests) :
        /\ requests[i].whole => Answered(i)
        /\ Answered(i) =>
             /\ readPos > 0
             /\ requests[i].from <= stream[readPos].req
             /\ requests[i].whole => \/ requests[i].from < stream[readPos].req
                                     \/ stream[readPos].part = Parts

Unanswered == requests # <<>> /\ ~Answered(Len(requests))

Waiting == phase = "wait" => Unanswered

InSync ==  \* in step, the last call stopped at the end of its answer
    (\A i \in 1 .. Exchanges : Own(i)) =>
        IF Exchanges = 0
        THEN readPos = 0
        ELSE /\ readPos > 0
             /\ stream[readPos].req = Exchanges
             /\ stream[readPos].part = Parts

LogInv == StreamShape /\ ReadSoFar /\ Waiting /\ InSync /\ AnswersInOrder /\ InStep

CallShape ==  \* which frame of a connection the call in progress sends
    /\ InCall => call.res = "pending" /\ transport = "open"
    /\ phase \in {"idle", "destroyed"} => call.res # "pending"
    /\ phase = "send" /\ call.op = "connect" => requests = <<>>
    /\ phase = "wait" => requests # <<>>
                         /\ requests[Len(requests)].frame = FrameOf(call.op)
    /\ phase = "wait" /\ call.op = "connect" => Len(requests) = 1
    /\ phase = "send" /\ call.op # "connect" /\ peer # "absent" => requests # <<>>
    /\ phase = "idle" /\ peer # "absent" => requests # <<>>
    /\ transport # "open" => peer = "absent" /\ requests = <<>> /\ readPos = 0

ByConfig ==  \* a serial client never gets a descriptor
    /\ transportType = "serial" => ~connected /\ transport \in {"null", "serial"}
    /\ transportType = "tcp" => transport # "serial"

IndInv == /\ TypeOK /\ ByConfig /\ LogInv /\ CallShape
          /\ FrameOrder /\ SequenceNumbers /\ DisconnectEndsSession

-----------------------------------------------------------------------------
(***************************************************************************)
(* What the repository says and the code does not do.                      *)
(*                                                                         *)
(* SetWhenNotConnected, tests/test_client.cpp: a set() made while          *)
(* is_connected() is false fails.  (It succeeds when an earlier connect()  *)
(* timed out and its answer has arrived since.)                            *)
(***************************************************************************)
SetNeedsConnection ==
    phase = "idle" /\ call.op = "set" /\ ~call.up => call.res # "ok"

(***************************************************************************)
(* client.cpp, "Parse UA": connect() succeeds on a UA.  (The type of the   *)
(* frame is never looked at: a refusal connects as well.)                  *)
(***************************************************************************)
ConnectNeedsUA ==
    phase = "idle" /\ call.op = "connect" /\ call.res = "ok"
        => stream[1].frame = "UA"

(***************************************************************************)
(* client.cpp, "Parse response": a get() on a connected client that reads  *)
(* exactly the answer to its own request returns what the answer says.     *)
(* (The HDLC frame is not taken off before decoding, so it fails.)         *)
(***************************************************************************)
GetReturnsItsAnswer ==
    phase = "idle" /\ call.op = "get" /\ call.up /\ requests # <<>>
        /\ Own(Len(requests)) => call.res = "ok"
=============================================================================
