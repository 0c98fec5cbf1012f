------------------------------ MODULE Framing ------------------------------
(***************************************************************************)
(* sendall and recvall (utils/net_utils.c) at the two ends of one          *)
(* direction of a TCP connection.  Messages are cut into bytes that travel *)
(* in pieces of any size; a byte is its message's number and its offset.   *)
(* recvall learns a message's length from one recv of the header's size,   *)
(* which returns what has arrived, perhaps not all of the header: the      *)
(* length is then read from bytes that were never written.                 *)
(***************************************************************************)
EXTENDS Naturals, Sequences

CONSTANTS
  HeaderLen,       \* sizeof(TOTAL_MSG_LEN)
  Lengths,         \* total lengths of the messages sent, header included
  GarbageLengths,  \* what an unfinished header may be read as
  SplitHeaders,    \* whether a header may arrive in pieces
  WireBuf,         \* bytes the socket buffers hold
  MaxMessages      \* bound of the model: messages sent

ASSUME FramingAssumption ==
  /\ {HeaderLen, WireBuf, MaxMessages} \subseteq Nat
  /\ 0 < HeaderLen /\ HeaderLen <= WireBuf
  /\ \A l \in Lengths : l \in Nat /\ l > HeaderLen
  /\ GarbageLengths \subseteq Nat \ {0}
  /\ SplitHeaders \in BOOLEAN

VARIABLES
  lens,        \* the lengths of the messages sendall was called with
  total_sent,  \* what sendall has handed over of the last of them
  ended,       \* "no", or how the sender closed: "fin" or "rst"
  wire,        \* bytes sent and not yet received
  total_len,   \* the length recvall has read, or Unread
  msg,         \* the bytes recvall has received of the message in hand
  received,    \* the buffers recvall has returned
  result       \* "receiving", or "closed" once recvall has returned 0

sender == <<lens, total_sent>>
receiver == <<total_len, msg, received, result>>
vars == <<sender, ended, wire, receiver>>

Unread == 0

Message(n) == [k \in 1 .. lens[n] |-> <<n, k>>]

Header(n) == SubSeq(Message(n), 1, HeaderLen)

(* How many messages sendall has handed over completely. *)
Complete ==
  IF lens # << >> /\ total_sent < lens[Len(lens)] THEN Len(lens) - 1 ELSE Len(lens)

Init ==
  /\ lens = << >> /\ total_sent = 0
  /\ ended = "no"
  /\ wire = << >>
  /\ total_len = Unread /\ msg = << >>
  /\ received = << >>
  /\ result = "receiving"

-----------------------------------------------------------------------------
(* The last byte is not one of an unfinished header. *)
HeaderWhole(bytes) == bytes # << >> => bytes[Len(bytes)][2] >= HeaderLen

sendall(length) ==
  /\ ended = "no" /\ Complete = Len(lens) /\ Len(lens) < MaxMessages
  /\ lens' = Append(lens, length)
  /\ total_sent' = 0
  /\ UNCHANGED <<ended, wire, receiver>>

(* What is handed over next when send() takes n bytes. *)
Piece_FromStart(n) == [k \in 1 .. n |-> <<Len(lens), k>>]

Piece(n) == [k \in 1 .. n |-> <<Len(lens), total_sent + k>>]

Send_WholeOnly ==
  /\ ended = "no" /\ Complete < Len(lens)
  /\ Len(wire) + lens[Len(lens)] <= WireBuf
  /\ wire' = wire \o Message(Len(lens))
  /\ total_sent' = lens[Len(lens)]
  /\ UNCHANGED <<lens, ended, receiver>>

(* One send(): it takes some of what is left, at least a byte. *)
Send ==
  /\ ended = "no" /\ Complete < Len(lens)
  /\ \E n \in 1 .. (lens[Len(lens)] - total_sent) :
       /\ Len(wire) + n <= WireBuf
       /\ wire' = wire \o Piece(n)
       /\ ~SplitHeaders => HeaderWhole(wire')
       /\ total_sent' = total_sent + n
  /\ UNCHANGED <<lens, ended, receiver>>

(* The sender's process ends, perhaps in the middle of a message.  After a *)
(* RST, bytes still on their way are lost.                                 *)
Close ==
  /\ ended = "no"
  /\ \/ ended' = "fin" /\ UNCHANGED wire
     \/ /\ ended' = "rst"
        /\ \E n \in 0 .. Len(wire) : wire' = SubSeq(wire, 1, n)
        /\ ~SplitHeaders => HeaderWhole(wire')
  /\ UNCHANGED <<sender, receiver>>

-----------------------------------------------------------------------------
(* recv(sockfd, ..., size): what has arrived, up to size bytes. *)
Recv(size) ==
  LET n == IF size < Len(wire) THEN size ELSE Len(wire) IN
  /\ wire # << >>
  /\ msg' = msg \o SubSeq(wire, 1, n)
  /\ wire' = SubSeq(wire, n + 1, Len(wire))

Decoded_HeaderNotCounted(bytes) ==
  {lens[n] + HeaderLen : n \in {m \in 1 .. Len(lens) : bytes = Header(m)}}

Decoded(bytes) ==
  LET sources == {n \in 1 .. Len(lens) : bytes = Header(n)} IN
  IF sources = {} THEN GarbageLengths ELSE {lens[n] : n \in sources}

Receiving == result = "receiving"

ReceiveHeader ==
  /\ Receiving /\ total_len = Unread
  /\ Recv(HeaderLen)
  /\ total_len' \in Decoded(msg')
  /\ UNCHANGED <<sender, ended, received, result>>

ReceiveRest ==
  /\ Receiving /\ total_len # Unread /\ Len(msg) < total_len
  /\ Recv(total_len - Len(msg))
  /\ UNCHANGED <<sender, ended, total_len, received, result>>

Return ==
  /\ Receiving /\ total_len # Unread /\ Len(msg) >= total_len
  /\ received' = Append(received, msg)
  /\ msg' = << >> /\ total_len' = Unread
  /\ UNCHANGED <<sender, ended, wire, result>>

ReceiveEnd_BeforeDraining ==
  /\ Receiving /\ ended # "no"
  /\ total_len = Unread \/ Len(msg) < total_len
  /\ msg' = << >> /\ total_len' = Unread
  /\ result' = "closed"
  /\ UNCHANGED <<sender, ended, wire, received>>

ReceiveEnd_NotInsideMessage ==
  /\ Receiving /\ wire = << >> /\ ended # "no"
  /\ total_len = Unread
  /\ result' = "closed"
  /\ UNCHANGED <<sender, ended, wire, total_len, msg, received>>

(* recv() returns 0, or -1 with ECONNRESET: recvall drops what it has. *)
ReceiveEnd ==
  /\ Receiving /\ wire = << >> /\ ended # "no"
  /\ total_len = Unread \/ Len(msg) < total_len
  /\ msg' = << >> /\ total_len' = Unread
  /\ result' = "closed"
  /\ UNCHANGED <<sender, ended, wire, received>>

Receiver == ReceiveHeader \/ ReceiveRest \/ Return \/ ReceiveEnd

Next == Send \/ Close \/ Receiver \/ \E l \in Lengths : sendall(l)

Spec == Init /\ [][Next]_vars

(* sendall and recvall keep calling; nobody has to send or close. *)
FairSpec == Spec /\ WF_vars(Send) /\ WF_vars(Receiver)

-----------------------------------------------------------------------------
(* Type invariant. *)
Byte == (1 .. MaxMessages) \X Nat

TypeOK ==
  /\ lens \in Seq(Lengths) /\ Len(lens) <= MaxMessages
  /\ total_sent \in Nat
  /\ ended \in {"no", "fin", "rst"}
  /\ wire \in Seq(Byte) /\ Len(wire) <= WireBuf
  /\ total_len \in Lengths \cup GarbageLengths \cup {Unread}
  /\ msg \in Seq(Byte)
  /\ received \in Seq(Seq(Byte))
  /\ result \in {"receiving", "closed"}

(***************************************************************************)
(* Every buffer recvall returns is one whole message, and they come in the *)
(* order they were sent, none missing: however send() and the network cut  *)
(* the stream, message boundaries are found again.                         *)
(***************************************************************************)
ReceivedWhole ==
  /\ Len(received) <= Complete
  /\ \A n \in 1 .. Len(received) : received[n] = Message(n)

(***************************************************************************)
(* Each message counts as given when its last byte has been handed over.   *)
(* However the stream is cut, sendall and recvall together are a channel   *)
(* of whole messages: in order, none twice, none left behind while the     *)
(* receiver waits, and the sender's end is noticed, also inside a message. *)
(***************************************************************************)
AsChannel == INSTANCE Channel WITH
  given <- [n \in 1 .. Complete |-> Message(n)],
  taken <- received,
  closed <- result = "closed"

ImplementsChannel == AsChannel!FairSpec

(***************************************************************************)
(* recvall, called when the first bytes of a message have arrived, returns *)
(* although it then waits for the rest: the sender goes on sending, or its *)
(* end is noticed.  (The server's one thread waits there for one client.)  *)
(***************************************************************************)
RecvallReturns == msg # << >> ~> msg = << >>

(***************************************************************************)
(* sendall gets rid of its message unless its own process ends, however    *)
(* small the buffers are.                                                  *)
(***************************************************************************)
SendallReturns == Complete < Len(lens) ~> (Complete = Len(lens) \/ ended # "no")

(***************************************************************************)
(* net_utils.h:24: recvall handles partial receives so that the entire     *)
(* message is obtained.  Stated of a network that may split a header.      *)
(***************************************************************************)
EntireMessageObtained ==
  \A n \in 1 .. Len(received) : n <= Len(lens) /\ received[n] = Message(n)
=============================================================================
