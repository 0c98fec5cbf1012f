---------------------------- MODULE FramingProofs ----------------------------
(***************************************************************************)
(* sendall and recvall make a channel of whole messages, for messages of   *)
(* any lengths, any buffer and any way the stream is cut, provided that a  *)
(* header is never split.                                                  *)
(***************************************************************************)
EXTENDS Framing, SequenceTheorems, TLAPS

(* The sizes are numbers, and a message is longer than its header.         *)
LEMMA Sizes ==
  /\ HeaderLen \in Nat \ {0} /\ WireBuf \in Nat /\ MaxMessages \in Nat
  /\ Lengths \subseteq Nat \ {0}
  /\ \A l \in Lengths : HeaderLen < l
  /\ GarbageLengths \subseteq Nat \ {0}
  /\ Unread = 0
BY FramingAssumption DEF Unread

(* sendall is in a message, or there is none it has not handed over.       *)
LEMMA CompleteCases ==
  ASSUME TypeOK
  PROVE  /\ Len(lens) \in Nat
         /\ Complete < Len(lens) => /\ Complete = Len(lens) - 1
                                    /\ Len(lens) \in 1 .. Len(lens)
                                    /\ total_sent < lens[Len(lens)]
         /\ Complete >= Len(lens) => /\ Complete = Len(lens)
                                     /\ Len(lens) > 0 => total_sent >= lens[Len(lens)]
<1>1. lens \in Seq(Lengths) /\ Len(lens) \in Nat /\ total_sent \in Nat
  BY DEF TypeOK
<1>2. CASE Len(lens) = 0
  BY <1>1, <1>2 DEF Complete
<1>3. CASE Len(lens) > 0
  <2>1. lens # << >> /\ lens[Len(lens)] \in Nat
    <3>1. Len(lens) \in 1 .. Len(lens)
      BY <1>1, <1>3
    <3>2. lens[Len(lens)] \in Lengths
      BY <1>1, <3>1
    <3>3. lens # << >>
      BY <1>3, EmptySeq
    <3>4. QED BY <3>2, <3>3, Sizes
  <2>2. QED BY <1>1, <1>3, <2>1 DEF Complete
<1>4. QED BY <1>1, <1>2, <1>3

(* What recv leaves and what it returns.                                   *)
LEMMA RecvSplits ==
  ASSUME NEW S, wire \in Seq(S), msg \in Seq(S), NEW size \in Nat, Recv(size)
  PROVE  \E n \in 0 .. Len(wire) :
           /\ n = IF size < Len(wire) THEN size ELSE Len(wire)
           /\ Len(wire) > 0
           /\ msg' \in Seq(S) /\ Len(msg') = Len(msg) + n
           /\ \A k \in 1 .. Len(msg) : msg'[k] = msg[k]
           /\ \A k \in 1 .. n : msg'[Len(msg) + k] = wire[k]
           /\ wire' \in Seq(S) /\ Len(wire') = Len(wire) - n
           /\ \A k \in 1 .. Len(wire') : wire'[k] = wire[n + k]
<1> DEFINE n == IF size < Len(wire) THEN size ELSE Len(wire)
           taken == SubSeq(wire, 1, n)
<1>1. Len(wire) \in Nat /\ Len(msg) \in Nat /\ n \in 0 .. Len(wire) /\ Len(wire) > 0
  BY DEF Recv
<1>2. msg' = msg \o taken /\ wire' = SubSeq(wire, n + 1, Len(wire))
  BY DEF Recv
<1> HIDE DEF n
<1>3. taken \in Seq(S) /\ Len(taken) = n /\ \A k \in 1 .. n : taken[k] = wire[k]
  BY <1>1, SubSeqProperties
<1>4. /\ wire' \in Seq(S) /\ Len(wire') = Len(wire) - n
      /\ \A k \in 1 .. Len(wire') : wire'[k] = wire[n + k]
  <2>1. \A k \in (n + 1) .. Len(wire) : wire[k] \in S
    BY <1>1
  <2>2. /\ SubSeq(wire, n + 1, Len(wire)) \in Seq(S)
        /\ Len(SubSeq(wire, n + 1, Len(wire))) = IF n + 1 <= Len(wire) THEN Len(wire) - (n + 1) + 1 ELSE 0
        /\ \A k \in 1 .. (Len(wire) - (n + 1) + 1) :
             SubSeq(wire, n + 1, Len(wire))[k] = wire[(n + 1) + k - 1]
    BY <1>1, <2>1, SubSeqProperties
  <2>3. QED BY <1>1, <1>2, <2>2
<1> HIDE DEF taken
<1>5. /\ msg' \in Seq(S) /\ Len(msg') = Len(msg) + n
      /\ \A k \in 1 .. Len(msg) : msg'[k] = msg[k]
      /\ \A k \in 1 .. n : msg'[Len(msg) + k] = wire[k]
  <2>1. /\ msg \o taken \in Seq(S) /\ Len(msg \o taken) = Len(msg) + Len(taken)
        /\ \A k \in 1 .. Len(msg) + Len(taken) :
             (msg \o taken)[k] = IF k <= Len(msg) THEN msg[k] ELSE taken[k - Len(msg)]
    BY <1>3, ConcatProperties
  <2>2. \A k \in 1 .. Len(msg) : k \in 1 .. Len(msg) + Len(taken) /\ k <= Len(msg)
    BY <1>1, <1>3
  <2>3. \A k \in 1 .. n : /\ Len(msg) + k \in 1 .. Len(msg) + Len(taken)
                          /\ ~(Len(msg) + k <= Len(msg))
                          /\ Len(msg) + k - Len(msg) = k
    BY <1>1, <1>3
  <2>4. QED BY <1>2, <1>3, <2>1, <2>2, <2>3
<1>6. QED BY <1>1, <1>4, <1>5 DEF n

-----------------------------------------------------------------------------
(* What the sender does keeps the types.                                   *)
LEMMA TypeSender ==
  ASSUME TypeOK, Send \/ Close \/ \E l \in Lengths : sendall(l)
  PROVE  TypeOK'
<1>1. /\ lens \in Seq(Lengths) /\ Len(lens) <= MaxMessages /\ Len(lens) \in Nat
      /\ total_sent \in Nat /\ wire \in Seq(Byte) /\ Len(wire) <= WireBuf
  BY DEF TypeOK
<1>2. ASSUME NEW l \in Lengths, sendall(l) PROVE TypeOK'
  <2>1. lens' \in Seq(Lengths) /\ Len(lens') <= MaxMessages
    BY <1>1, <1>2, Sizes DEF sendall
  <2>2. QED BY <1>2, <2>1 DEF sendall, receiver, TypeOK
<1>3. CASE Send
  <2>1. /\ Complete < Len(lens)
        /\ UNCHANGED <<lens, ended, receiver>>
    BY <1>3 DEF Send
  <2>2. Len(lens) \in 1 .. MaxMessages
    BY <1>1, <2>1, CompleteCases, Sizes
  <2>3. PICK n \in 1 .. (lens[Len(lens)] - total_sent) :
          Len(wire) + n <= WireBuf /\ wire' = wire \o Piece(n) /\ total_sent' = total_sent + n
    BY <1>3 DEF Send
  <2>4. n \in Nat
    BY <2>3
  <2>5. Piece(n) \in Seq(Byte) /\ Len(Piece(n)) = n
    <3>1. \A k \in 1 .. n : <<Len(lens), total_sent + k>> \in Byte
      BY <1>1, <2>2, <2>4 DEF Byte
    <3>2. QED BY <2>4, <3>1 DEF Piece
  <2>6. wire' \in Seq(Byte) /\ Len(wire') <= WireBuf
    <3>1. wire' \in Seq(Byte) /\ Len(wire') = Len(wire) + n
      BY <1>1, <2>3, <2>5, ConcatProperties
    <3>2. QED BY <2>3, <3>1
  <2>7. total_sent' \in Nat
    BY <1>1, <2>3, <2>4
  <2>8. QED BY <2>1, <2>6, <2>7 DEF receiver, TypeOK
<1>4. CASE Close
  <2>1. wire' \in Seq(Byte) /\ Len(wire') <= WireBuf
    <3>1. ASSUME NEW n \in 0 .. Len(wire), wire' = SubSeq(wire, 1, n)
          PROVE  wire' \in Seq(Byte) /\ Len(wire') <= WireBuf
      <4>1. Len(wire) \in Nat /\ n \in Nat /\ n <= Len(wire) /\ \A k \in 1 .. n : wire[k] \in Byte
        BY <1>1
      <4>2. SubSeq(wire, 1, n) \in Seq(Byte) /\ Len(SubSeq(wire, 1, n)) = n
        BY <4>1, SubSeqProperties
      <4>3. QED BY <1>1, <3>1, <4>1, <4>2, Sizes
    <3>2. QED BY <1>1, <1>4, <3>1 DEF Close
  <2>2. ended' \in {"no", "fin", "rst"} /\ UNCHANGED <<sender, receiver>>
    BY <1>4 DEF Close
  <2>3. QED BY <2>1, <2>2 DEF sender, receiver, TypeOK
<1>5. QED BY <1>2, <1>3, <1>4

(* What the receiver does keeps the types.                                 *)
LEMMA TypeReceiver == ASSUME TypeOK, Receiver PROVE TypeOK'
<1>1. /\ lens \in Seq(Lengths) /\ wire \in Seq(Byte) /\ Len(wire) <= WireBuf
      /\ msg \in Seq(Byte) /\ received \in Seq(Seq(Byte))
      /\ total_len \in Lengths \cup GarbageLengths \cup {Unread}
  BY DEF TypeOK
<1>2. total_len \in Nat
  BY <1>1, Sizes DEF Unread
<1>3. ASSUME NEW size \in Nat, Recv(size)
      PROVE  msg' \in Seq(Byte) /\ wire' \in Seq(Byte) /\ Len(wire') <= WireBuf
  <2>1. PICK n \in 0 .. Len(wire) :
          msg' \in Seq(Byte) /\ wire' \in Seq(Byte) /\ Len(wire') = Len(wire) - n
    BY <1>1, <1>3, RecvSplits
  <2>2. QED BY <1>1, <2>1, Sizes
<1>4. CASE ReceiveHeader
  <2>1. msg' \in Seq(Byte) /\ wire' \in Seq(Byte) /\ Len(wire') <= WireBuf
    BY <1>3, <1>4, Sizes DEF ReceiveHeader
  <2>2. total_len' \in Lengths \cup GarbageLengths
    BY <1>1, <1>4 DEF ReceiveHeader, Decoded
  <2>3. QED BY <1>4, <2>1, <2>2 DEF ReceiveHeader, sender, TypeOK
<1>5. CASE ReceiveRest
  <2>1. total_len - Len(msg) \in Nat
    BY <1>1, <1>2, <1>5 DEF ReceiveRest
  <2>2. msg' \in Seq(Byte) /\ wire' \in Seq(Byte) /\ Len(wire') <= WireBuf
    BY <1>3, <1>5, <2>1 DEF ReceiveRest
  <2>3. QED BY <1>5, <2>2 DEF ReceiveRest, sender, TypeOK
<1>6. CASE Return
  <2>1. received' \in Seq(Seq(Byte)) /\ msg' \in Seq(Byte)
    BY <1>1, <1>6 DEF Return
  <2>2. QED BY <1>6, <2>1 DEF Return, sender, TypeOK
<1>7. CASE ReceiveEnd
  BY <1>7 DEF ReceiveEnd, sender, TypeOK
<1>8. QED BY <1>4, <1>5, <1>6, <1>7 DEF Receiver

(* The bytes on the way and in recvall's hands always have their types and *)
(* the socket buffers never hold more than they can.                       *)
THEOREM TypeCorrect == Spec => []TypeOK
<1>1. Init => TypeOK
  BY Sizes, EmptySeq DEF Init, TypeOK
<1>2. TypeOK /\ UNCHANGED vars => TypeOK'
  BY DEF TypeOK, vars, sender, receiver
<1>3. QED BY <1>1, <1>2, TypeSender, TypeReceiver, PTL DEF Spec, Next

-----------------------------------------------------------------------------
(***************************************************************************)
(* The stream.  off[n] is where message n begins in the stream of all the  *)
(* bytes sent, the next message included.  What is on the way is the part  *)
(* of the stream from where recvall is to what sendall has handed over, or *)
(* the beginning of that part after a RST.                                 *)
(***************************************************************************)
Offsets(off) ==
  /\ off \in Seq(Nat) /\ Len(off) = Len(lens) + 1
  /\ off[1] = 0
  /\ \A n \in 1 .. Len(lens) : off[n + 1] = off[n] + lens[n]
  /\ \A m, n \in 1 .. Len(off) : m < n => off[m] + lens[m] <= off[n]

HandedOver(off) == IF Len(lens) = 0 THEN 0 ELSE off[Len(lens)] + total_sent

(* The message recvall is in or waits for. *)
Current == Len(received) + 1

Here(off) == off[Current] + Len(msg)

(* The byte b is the one at a position of the stream. *)
IsAt(b, off, position) ==
  /\ b[1] \in 1 .. Len(lens) /\ b[2] \in 1 .. lens[b[1]]
  /\ off[b[1]] + b[2] = position

OnTheWay(off) ==
  /\ \A k \in 1 .. Len(wire) : IsAt(wire[k], off, Here(off) + k)
  /\ Here(off) + Len(wire) <= HandedOver(off)
  /\ ended # "rst" => Here(off) + Len(wire) = HandedOver(off)

(* What recvall has of the message it is in is the beginning of it. *)
InHand ==
  IF total_len = Unread THEN Len(msg) = 0
  ELSE /\ Current <= Len(lens) /\ total_len = lens[Current]
       /\ HeaderLen <= Len(msg) /\ Len(msg) <= total_len
       /\ \A k \in 1 .. Len(msg) : msg[k] = <<Current, k>>

StreamInv ==
  /\ ReceivedWhole
  /\ Len(lens) > 0 => total_sent <= lens[Len(lens)]
  /\ Len(wire) > 0 => wire[Len(wire)][2] >= HeaderLen
  /\ result = "receiving" => InHand /\ \E off : Offsets(off) /\ OnTheWay(off)

(* A byte of the stream from the message at hand's beginning to its end is *)
(* one of that message.                                                    *)
LEMMA BytesOfCurrent ==
  ASSUME TypeOK, NEW off, Offsets(off), Current \in 1 .. Len(lens) + 1,
         NEW b, NEW k \in Nat \ {0}, IsAt(b, off, off[Current] + k),
         Current <= Len(lens) => k <= lens[Current]
  PROVE  Current <= Len(lens) /\ b[1] = Current /\ b[2] = k
<1> DEFINE n == b[1]
<1>1. /\ Len(lens) \in Nat /\ lens \in Seq(Nat)
      /\ off \in Seq(Nat) /\ Len(off) = Len(lens) + 1
  <2>1. lens \in Seq(Lengths) /\ Len(lens) \in Nat
    BY DEF TypeOK
  <2>2. lens \in Seq(Nat)
    BY <2>1, Sizes, SeqMonotonic
  <2>3. QED BY <2>1, <2>2 DEF Offsets
<1>2. /\ n \in 1 .. Len(lens) /\ b[2] \in 1 .. lens[n] /\ off[n] + b[2] = off[Current] + k
  BY DEF IsAt
<1> HIDE DEF n
<1>3. /\ off[n] \in Nat /\ off[Current] \in Nat /\ lens[n] \in Nat /\ b[2] \in Nat
      /\ n \in 1 .. Len(off) /\ Current \in 1 .. Len(off) /\ n \in Nat /\ Current \in Nat
  <2>1. n \in 1 .. Len(off) /\ Current \in 1 .. Len(off) /\ n \in Nat /\ Current \in Nat
    <3>1. Current \in Nat /\ n \in Nat /\ Len(lens) \in Nat
      BY <1>1, <1>2
    <3>2. n \in 1 .. Len(lens) + 1
      BY <1>1, <1>2
    <3>3. QED BY <1>1, <3>1, <3>2
  <2>2. off[n] \in Nat /\ off[Current] \in Nat
    BY <1>1, <2>1, ElementOfSeq
  <2>4. lens[n] \in Nat
    BY <1>1, <1>2, ElementOfSeq
  <2>3. QED BY <1>2, <2>1, <2>2, <2>4
<1>4. ~(n < Current)
  <2>1. ASSUME n < Current PROVE FALSE
    <3>1. off[n] + lens[n] <= off[Current]
      BY <1>3, <2>1 DEF Offsets
    <3>2. b[2] <= lens[n] /\ off[n] + b[2] = off[Current] + k /\ k >= 1
      BY <1>2, <1>3
    <3>3. \A x, y, z, v \in Nat : z <= v /\ x + v <= y => x + z # y + k
      OBVIOUS
    <3>4. QED BY <1>3, <3>1, <3>2, <3>3
  <2>2. QED BY <2>1
<1>5. ~(Current < n)
  <2>1. ASSUME Current < n PROVE FALSE
    <3>1. Current \in 1 .. Len(lens)
      BY <1>1, <1>2, <1>3, <2>1
    <3>4. lens[Current] \in Nat
      BY <1>1, <3>1, ElementOfSeq
    <3>2. off[Current] + lens[Current] <= off[n]
      BY <1>3, <2>1 DEF Offsets
    <3>5. k <= lens[Current]
      BY <1>1, <3>1
    <3>6. b[2] >= 1 /\ off[n] + b[2] = off[Current] + k
      BY <1>2, <1>3
    <3>7. \A x, y, z, u, v \in Nat : z <= u /\ y + u <= x /\ v >= 1 => x + v # y + z
      OBVIOUS
    <3>3. QED BY <1>3, <3>2, <3>4, <3>5, <3>6, <3>7
  <2>2. QED BY <2>1
<1>6. n = Current
  BY <1>1, <1>2, <1>4, <1>5
<1>7. QED BY <1>2, <1>3, <1>6 DEF n

(* The lengths and the offsets are numbers. *)
LEMMA Numbers ==
  ASSUME TypeOK
  PROVE  /\ Len(lens) \in Nat /\ total_sent \in Nat /\ Len(received) \in Nat /\ Len(wire) \in Nat
         /\ Len(msg) \in Nat /\ Current \in Nat /\ Current > 0
         /\ \A n \in 1 .. Len(lens) : lens[n] \in Nat /\ HeaderLen < lens[n]
         /\ \A off : Offsets(off) => /\ \A n \in 1 .. Len(lens) + 1 : off[n] \in Nat
                                    /\ HandedOver(off) \in Nat
<1>1. /\ lens \in Seq(Lengths) /\ Len(lens) \in Nat /\ total_sent \in Nat
      /\ Len(received) \in Nat /\ Len(wire) \in Nat /\ Len(msg) \in Nat
  BY DEF TypeOK
<1>2. ASSUME NEW n \in 1 .. Len(lens) PROVE lens[n] \in Nat /\ HeaderLen < lens[n]
  <2>1. lens[n] \in Lengths
    BY <1>1
  <2>2. QED BY <2>1, Sizes
<1>3. Current \in Nat /\ Current > 0
  BY <1>1 DEF Current
<1>4. ASSUME NEW off, Offsets(off)
      PROVE  (\A n \in 1 .. Len(lens) + 1 : off[n] \in Nat) /\ HandedOver(off) \in Nat
  <2>1. \A n \in 1 .. Len(lens) + 1 : off[n] \in Nat
    BY <1>4 DEF Offsets
  <2>2. CASE Len(lens) = 0
    BY <2>1, <2>2 DEF HandedOver
  <2>3. CASE Len(lens) # 0
    <3>1. Len(lens) \in 1 .. Len(lens) + 1
      BY <1>1, <2>3
    <3>2. off[Len(lens)] \in Nat
      BY <2>1, <3>1
    <3>3. QED BY <1>1, <2>1, <2>3, <3>2 DEF HandedOver
  <2>4. QED BY <2>2, <2>3
<1>5. QED BY <1>1, <1>2, <1>3, <1>4

(* recvall is in a message that has been sent, or waits for the next one. *)
LEMMA Whereabouts ==
  ASSUME TypeOK, StreamInv
  PROVE  /\ Current \in 1 .. Len(lens) + 1
         /\ \A off : Offsets(off) => off[Current] \in Nat /\ Here(off) \in Nat
<1>1. Len(received) \in Nat /\ Len(received) <= Complete
  BY Numbers DEF StreamInv, ReceivedWhole
<1>2. Complete = Len(lens) - 1 \/ Complete = Len(lens)
  BY DEF Complete
<1>3. Current \in 1 .. Len(lens) + 1
  BY <1>1, <1>2, Numbers DEF Current
<1>4. ASSUME NEW off, Offsets(off) PROVE off[Current] \in Nat /\ Here(off) \in Nat
  <2>1. off[Current] \in Nat
    BY <1>3, <1>4, Numbers
  <2>2. QED BY <2>1, Numbers DEF Here
<1>5. QED BY <1>3, <1>4

(* The next bytes received, up to the end of the message recvall is in,    *)
(* are the next ones of that message.                                      *)
LEMMA NextBytes ==
  ASSUME TypeOK, StreamInv, NEW off, Offsets(off), OnTheWay(off),
         NEW k \in 1 .. Len(wire), Current <= Len(lens) => Len(msg) + k <= lens[Current]
  PROVE  Current <= Len(lens) /\ wire[k] = <<Current, Len(msg) + k>>
<1>1. /\ Len(lens) \in Nat /\ Len(msg) \in Nat /\ Len(wire) \in Nat /\ k \in Nat /\ k > 0
      /\ Current \in Nat /\ Current > 0 /\ Len(received) \in Nat
  BY Numbers
<1>2. Current \in 1 .. Len(lens) + 1 /\ off[Current] \in Nat
  BY Whereabouts
<1>4. IsAt(wire[k], off, off[Current] + (Len(msg) + k))
  <2>1. IsAt(wire[k], off, off[Current] + Len(msg) + k)
    BY DEF OnTheWay, Here
  <2>2. off[Current] + Len(msg) + k = off[Current] + (Len(msg) + k)
    BY <1>1, <1>2
  <2>3. QED BY <2>1, <2>2
<1>5. Len(msg) + k \in Nat \ {0}
  BY <1>1
<1>6. Current <= Len(lens) /\ wire[k][1] = Current /\ wire[k][2] = Len(msg) + k
  BY <1>2, <1>4, <1>5, BytesOfCurrent
<1>7. wire[k] \in Byte
  BY DEF TypeOK
<1>8. QED BY <1>6, <1>7 DEF Byte

(* What is left on the way once recv has returned bytes is where it was in *)
(* the stream.                                                             *)
LEMMA RecvKeepsStream ==
  ASSUME TypeOK, StreamInv, NEW off, Offsets(off), OnTheWay(off), NEW size \in Nat,
         Recv(size), UNCHANGED <<sender, ended, received>>
  PROVE  /\ Offsets(off)' /\ OnTheWay(off)'
         /\ Len(wire') > 0 => wire'[Len(wire')][2] >= HeaderLen
<1>1. /\ Len(lens) \in Nat /\ Len(msg) \in Nat /\ Len(wire) \in Nat
      /\ HandedOver(off) \in Nat
  BY Numbers
<1>2. off[Current] \in Nat
  BY Whereabouts
<1>3. wire \in Seq(Byte) /\ msg \in Seq(Byte)
  BY DEF TypeOK
<1>4. PICK n \in 0 .. Len(wire) :
        /\ Len(msg') = Len(msg) + n
        /\ wire' \in Seq(Byte) /\ Len(wire') = Len(wire) - n
        /\ \A k \in 1 .. Len(wire') : wire'[k] = wire[n + k]
  BY <1>3, RecvSplits
<1>5. n \in Nat /\ Len(wire') \in Nat
  BY <1>1, <1>4
<1>6. lens' = lens /\ total_sent' = total_sent /\ received' = received /\ ended' = ended
  BY DEF sender
<1>7. Offsets(off)' /\ HandedOver(off)' = HandedOver(off) /\ Current' = Current
  BY <1>6 DEF Offsets, HandedOver, Current
<1>8. Here(off)' = Here(off) + n /\ Here(off) \in Nat
  <2>1. Here(off) = off[Current] + Len(msg) /\ Here(off)' = off[Current] + (Len(msg) + n)
    BY <1>4, <1>7 DEF Here
  <2>2. \A x, y \in Nat : x + (y + n) = (x + y) + n /\ x + y \in Nat
    BY <1>5
  <2>3. QED BY <1>1, <1>2, <2>1, <2>2
<1>9. Here(off)' + Len(wire') = Here(off) + Len(wire)
  <2>1. \A x, y \in Nat : (x + n) + (y - n) = x + y
    BY <1>5
  <2>2. QED BY <1>1, <1>4, <1>8, <2>1
<1>10. ASSUME NEW k \in 1 .. Len(wire') PROVE IsAt(wire[k], off, Here(off) + k)'
  <2>1. n + k \in 1 .. Len(wire) /\ wire'[k] = wire[n + k] /\ k \in Nat
    <3>1. k \in Nat /\ k >= 1 /\ k <= Len(wire')
      BY <1>5
    <3>2. Len(wire') = Len(wire) - n
      BY <1>4
    <3>3. n + k \in 1 .. Len(wire)
      BY <1>1, <1>5, <3>1, <3>2
    <3>4. QED BY <1>4, <3>1, <3>3
  <2>2. IsAt(wire[n + k], off, Here(off) + (n + k))
    BY <2>1 DEF OnTheWay
  <2>3. Here(off) + (n + k) = Here(off)' + k
    BY <1>5, <1>8, <2>1
  <2>4. QED BY <1>6, <2>1, <2>2, <2>3 DEF IsAt
<1>11. OnTheWay(off)'
  BY <1>6, <1>7, <1>9, <1>10 DEF OnTheWay
<1>12. ASSUME Len(wire') > 0 PROVE wire'[Len(wire')][2] >= HeaderLen
  <2>1. Len(wire') \in 1 .. Len(wire') /\ n + Len(wire') = Len(wire) /\ Len(wire) > 0
    BY <1>1, <1>4, <1>5, <1>12
  <2>2. wire'[Len(wire')] = wire[Len(wire)]
    BY <1>4, <2>1
  <2>3. QED BY <2>1, <2>2 DEF StreamInv
<1>13. QED BY <1>7, <1>11, <1>12

-----------------------------------------------------------------------------
(* One header is one message's. *)
LEMMA HeadersDiffer ==
  ASSUME TypeOK, NEW n \in 1 .. Len(lens)
  PROVE  /\ Len(Header(n)) = HeaderLen /\ Header(n) \in Seq(Nat \X Nat)
         /\ \A k \in 1 .. HeaderLen : Header(n)[k] = <<n, k>>
         /\ Decoded(Header(n)) = {lens[n]}
<1> USE Sizes
<1>1. ASSUME NEW m \in 1 .. Len(lens)
      PROVE  /\ Len(Header(m)) = HeaderLen /\ Header(m) \in Seq(Nat \X Nat)
             /\ \A k \in 1 .. HeaderLen : Header(m)[k] = <<m, k>>
  <2>1. lens[m] \in Nat /\ HeaderLen < lens[m] /\ m \in Nat
    BY Numbers
  <2>2. /\ Message(m) \in Seq(Nat \X Nat) /\ Len(Message(m)) = lens[m]
        /\ \A k \in 1 .. lens[m] : Message(m)[k] = <<m, k>>
    <3>1. \A k \in 1 .. lens[m] : <<m, k>> \in Nat \X Nat
      BY <2>1
    <3>2. QED BY <2>1, <3>1 DEF Message
  <2>3. \A k \in 1 .. HeaderLen : k \in 1 .. lens[m] /\ Message(m)[k] \in Nat \X Nat
    <3>1. \A k \in 1 .. HeaderLen : k \in 1 .. lens[m] /\ k \in Nat
      BY <2>1
    <3>2. \A k \in 1 .. lens[m] : <<m, k>> \in Nat \X Nat
      BY <2>1
    <3>3. QED BY <2>2, <3>1, <3>2
  <2>4. QED BY <2>2, <2>3, SubSeqProperties DEF Header
<1>2. ASSUME NEW m \in 1 .. Len(lens), Header(n) = Header(m) PROVE m = n
  <2>1. 1 \in 1 .. HeaderLen
    OBVIOUS
  <2>2. Header(n)[1] = <<n, 1>> /\ Header(m)[1] = <<m, 1>>
    BY <1>1, <2>1
  <2>3. QED BY <1>2, <2>2
<1>3. Decoded(Header(n)) = {lens[n]}
  BY <1>2 DEF Decoded
<1>4. QED BY <1>1, <1>3

(* The sender: what it hands over is where it belongs in the stream.       *)
LEMMA StreamSendall ==
  ASSUME TypeOK, StreamInv, NEW l \in Lengths, sendall(l)
  PROVE  StreamInv'
<1>1. /\ Len(lens) \in Nat /\ total_sent \in Nat /\ Len(received) \in Nat /\ Len(wire) \in Nat
      /\ Current \in Nat /\ Current > 0
      /\ \A n \in 1 .. Len(lens) : lens[n] \in Nat
  BY Numbers
<1>2. l \in Nat /\ l > 0
  BY Sizes
<1>3. /\ lens' = Append(lens, l) /\ total_sent' = 0 /\ Complete = Len(lens)
      /\ UNCHANGED <<ended, wire, total_len, msg, received, result>>
  BY DEF sendall, receiver
<1>4. /\ Len(lens') = Len(lens) + 1 /\ lens'[Len(lens) + 1] = l
      /\ \A n \in 1 .. Len(lens) : lens'[n] = lens[n]
  BY <1>1, <1>3 DEF TypeOK
<1>5. Complete' = Len(lens)
  <2>1. lens' # << >>
    BY <1>1, <1>4, EmptySeq
  <2>2. total_sent' < lens'[Len(lens')]
    BY <1>2, <1>3, <1>4
  <2>3. QED BY <1>1, <1>4, <2>1, <2>2 DEF Complete
<1>6. Len(received) <= Len(lens) /\ Current \in 1 .. Len(lens) + 1
  BY <1>1, <1>3 DEF StreamInv, ReceivedWhole, Current
<1>7. ReceivedWhole'
  <2>1. \A n \in 1 .. Len(received) : n \in 1 .. Len(lens) /\ Message(n)' = Message(n)
    BY <1>1, <1>4, <1>6 DEF Message
  <2>2. QED BY <1>3, <1>5, <1>6, <2>1 DEF StreamInv, ReceivedWhole
<1>8. Len(lens') > 0 => total_sent' <= lens'[Len(lens')]
  BY <1>2, <1>3, <1>4
<1>9. Len(wire') > 0 => wire'[Len(wire')][2] >= HeaderLen
  BY <1>3 DEF StreamInv
<1>10. ASSUME result = "receiving"
       PROVE  InHand' /\ \E off : Offsets(off)' /\ OnTheWay(off)'
  <2>1. PICK off : Offsets(off) /\ OnTheWay(off)
    BY <1>10 DEF StreamInv
  <2>2. /\ off \in Seq(Nat) /\ Len(off) = Len(lens) + 1 /\ off[1] = 0
        /\ \A n \in 1 .. Len(lens) + 1 : off[n] \in Nat
    BY <2>1, Numbers DEF Offsets
  <2>3. HandedOver(off) = off[Len(lens) + 1]
    <3>1. CASE Len(lens) = 0
      BY <2>2, <3>1 DEF HandedOver
    <3>2. CASE Len(lens) > 0
      <4>1. total_sent >= lens[Len(lens)] /\ total_sent <= lens[Len(lens)]
        BY <1>1, <1>3, <3>2, CompleteCases DEF StreamInv
      <4>2. Len(lens) \in 1 .. Len(lens)
        BY <1>1, <3>2
      <4>3. total_sent = lens[Len(lens)]
        BY <1>1, <4>1, <4>2
      <4>4. QED BY <2>1, <3>2, <4>2, <4>3 DEF HandedOver, Offsets
    <3>3. QED BY <1>1, <3>1, <3>2
  <2>20. PICK off2 : off2 = Append(off, off[Len(off)] + l)
    OBVIOUS
  <2>4. /\ off[Len(off)] + l \in Nat
        /\ off2 \in Seq(Nat) /\ Len(off2) = Len(lens) + 2
        /\ off2[Len(lens) + 2] = off[Len(lens) + 1] + l
        /\ \A n \in 1 .. Len(lens) + 1 : off2[n] = off[n]
    <3>1. Len(lens) + 1 \in 1 .. Len(lens) + 1
      BY <1>1
    <3>2. off[Len(off)] \in Nat /\ off[Len(off)] + l \in Nat
      BY <1>2, <2>2, <3>1
    <3>3. QED BY <1>1, <2>2, <2>20, <3>2
  <2>5. off2[1] = 0
    BY <1>1, <2>2, <2>4
  <2>6. \A n \in 1 .. Len(lens') : off2[n + 1] = off2[n] + lens'[n]
    <3>1. ASSUME NEW n \in 1 .. Len(lens) PROVE off2[n + 1] = off2[n] + lens'[n]
      <4>1. n \in 1 .. Len(lens) + 1 /\ n + 1 \in 1 .. Len(lens) + 1
        BY <1>1
      <4>2. off[n + 1] = off[n] + lens[n]
        BY <2>1 DEF Offsets
      <4>3. QED BY <1>4, <2>4, <4>1, <4>2
    <3>2. off2[(Len(lens) + 1) + 1] = off2[Len(lens) + 1] + lens'[Len(lens) + 1]
      <4>1. Len(lens) + 1 \in 1 .. Len(lens) + 1 /\ (Len(lens) + 1) + 1 = Len(lens) + 2
        BY <1>1
      <4>2. QED BY <1>4, <2>4, <4>1
    <3>3. ASSUME NEW n \in 1 .. Len(lens') PROVE n \in 1 .. Len(lens) \/ n = Len(lens) + 1
      <4>1. n \in 1 .. (Len(lens) + 1)
        BY <1>4
      <4>2. QED BY <1>1, <4>1
    <3>4. QED BY <3>1, <3>2, <3>3
  <2>7. ASSUME NEW m \in 1 .. Len(off2), NEW n \in 1 .. Len(off2), m < n
        PROVE  off2[m] + lens'[m] <= off2[n]
    <3>1. m \in 1 .. Len(lens) + 1 /\ off2[m] = off[m]
      <4>1. m \in Nat /\ n \in Nat /\ n <= Len(lens) + 2 /\ m >= 1
        BY <1>1, <2>4
      <4>2. m \in 1 .. Len(lens) + 1
        BY <1>1, <2>7, <4>1
      <4>3. QED BY <2>4, <4>2
    <3>2. CASE n <= Len(lens) + 1
      <4>1. m \in 1 .. Len(lens) /\ m \in 1 .. Len(off) /\ n \in 1 .. Len(off)
        BY <1>1, <2>2, <2>4, <2>7, <3>1, <3>2
      <4>2. off[m] + lens[m] <= off[n]
        BY <2>1, <2>7, <4>1 DEF Offsets
      <4>3. QED BY <1>4, <2>2, <2>4, <3>1, <4>1, <4>2
    <3>3. CASE n > Len(lens) + 1
      <4>1. n = Len(lens) + 2 /\ off2[n] = off[Len(lens) + 1] + l
        BY <1>1, <2>4, <3>3
      <4>2. CASE m = Len(lens) + 1
        BY <1>2, <1>4, <2>2, <3>1, <4>1, <4>2
      <4>3. CASE m < Len(lens) + 1
        <5>1. m \in 1 .. Len(lens) /\ m \in 1 .. Len(off) /\ Len(lens) + 1 \in 1 .. Len(off)
          <6>1. Len(off) = Len(lens) + 1
            BY <2>2
          <6>2. QED BY <1>1, <3>1, <4>3, <6>1
        <5>2. off[m] + lens[m] <= off[Len(lens) + 1]
          BY <2>1, <4>3, <5>1 DEF Offsets
        <5>3. off[m] \in Nat /\ lens[m] \in Nat /\ off[Len(lens) + 1] \in Nat
          BY <1>1, <2>2, <3>1, <5>1
        <5>4. off[m] + lens[m] <= off[Len(lens) + 1] + l
          BY <1>2, <5>2, <5>3
        <5>5. QED BY <1>4, <3>1, <4>1, <5>1, <5>4
      <4>4. QED BY <1>1, <3>1, <4>2, <4>3
    <3>4. QED BY <1>1, <2>4, <3>2, <3>3
  <2>8. Offsets(off2)'
    BY <1>1, <1>4, <2>4, <2>5, <2>6, <2>7 DEF Offsets
  <2>9. Here(off2)' = Here(off)
    BY <1>3, <1>6, <2>4 DEF Here, Current
  <2>10. HandedOver(off2)' = HandedOver(off)
    <3>1. Len(lens') # 0 /\ off2[Len(lens')] = off[Len(lens) + 1]
      BY <1>1, <1>4, <2>4
    <3>2. off[Len(lens) + 1] \in Nat
      BY <1>1, <2>2
    <3>3. QED BY <1>3, <2>3, <3>1, <3>2 DEF HandedOver
  <2>11. ASSUME NEW k \in 1 .. Len(wire) PROVE IsAt(wire[k], off2, Here(off2) + k)'
    <3>1. IsAt(wire[k], off, Here(off) + k)
      BY <2>1 DEF OnTheWay
    <3>2. /\ wire[k][1] \in 1 .. Len(lens') /\ lens'[wire[k][1]] = lens[wire[k][1]]
          /\ off2[wire[k][1]] = off[wire[k][1]]
      <4>1. wire[k][1] \in 1 .. Len(lens)
        BY <3>1 DEF IsAt
      <4>2. \A n \in 1 .. Len(lens) : /\ n \in 1 .. Len(lens') /\ lens'[n] = lens[n]
                                      /\ off2[n] = off[n]
        BY <1>1, <1>4, <2>4
      <4>3. QED BY <4>1, <4>2
    <3>3. IsAt(wire[k], off2, Here(off2) + k)' <=>
            /\ wire[k][1] \in 1 .. Len(lens') /\ wire[k][2] \in 1 .. lens'[wire[k][1]]
            /\ off2[wire[k][1]] + wire[k][2] = Here(off) + k
      BY <1>3, <2>9 DEF IsAt
    <3>4. QED BY <3>1, <3>2, <3>3 DEF IsAt
  <2>12. OnTheWay(off2)'
    BY <1>3, <2>1, <2>9, <2>10, <2>11 DEF OnTheWay
  <2>13. InHand'
    <3>1. InHand /\ Current' = Current
      BY <1>3, <1>10 DEF StreamInv, Current
    <3>2. CASE total_len = Unread
      BY <1>3, <3>1, <3>2 DEF InHand
    <3>3. CASE total_len # Unread
      <4>1. Current <= Len(lens) /\ total_len = lens[Current]
        BY <3>1, <3>3 DEF InHand
      <4>2. Current <= Len(lens') /\ total_len = lens'[Current]
        BY <1>1, <1>4, <4>1
      <4>3. QED BY <1>3, <3>1, <3>3, <4>2 DEF InHand
    <3>4. QED BY <3>2, <3>3
  <2>14. QED BY <2>8, <2>12, <2>13
<1>11. QED BY <1>3, <1>7, <1>8, <1>9, <1>10 DEF StreamInv

LEMMA StreamSend ==
  ASSUME ~SplitHeaders, TypeOK, StreamInv, Send
  PROVE  StreamInv'
<1>1. /\ Len(lens) \in Nat /\ total_sent \in Nat /\ Len(received) \in Nat /\ Len(wire) \in Nat
      /\ Len(msg) \in Nat /\ Current \in Nat /\ Current > 0
      /\ \A n \in 1 .. Len(lens) : lens[n] \in Nat
  BY Numbers
<1>2. /\ ended = "no" /\ Complete < Len(lens) /\ HeaderWhole(wire')
      /\ UNCHANGED <<lens, ended, total_len, msg, received, result>>
  BY DEF Send, receiver
<1>3. Len(lens) \in 1 .. Len(lens) /\ Complete = Len(lens) - 1 /\ Len(lens) # 0
  BY <1>1, <1>2, CompleteCases
<1>4. PICK n \in 1 .. (lens[Len(lens)] - total_sent) :
        wire' = wire \o Piece(n) /\ total_sent' = total_sent + n
  BY DEF Send
<1>5. lens[Len(lens)] \in Nat
  BY <1>1, <1>3
<1>6. n \in Nat /\ n > 0 /\ total_sent' \in Nat /\ total_sent' <= lens[Len(lens)]
  BY <1>1, <1>4, <1>5
<1>7. /\ Len(wire') = Len(wire) + n /\ Len(wire') \in Nat
      /\ \A k \in 1 .. Len(wire) : wire'[k] = wire[k]
      /\ \A k \in 1 .. n : wire'[Len(wire) + k] = <<Len(lens), total_sent + k>>
  <2>1. Piece(n) \in Seq(Nat \X Nat) /\ Len(Piece(n)) = n
    BY <1>1, <1>6 DEF Piece
  <2>2. \A k \in 1 .. n : Piece(n)[k] = <<Len(lens), total_sent + k>>
    BY DEF Piece
  <2>3. wire \in Seq(Nat \X Nat)
    BY SeqMonotonic DEF TypeOK, Byte
  <2> HIDE DEF Piece
  <2>4. /\ Len(wire') = Len(wire) + n
        /\ \A k \in 1 .. Len(wire) + n :
             wire'[k] = IF k <= Len(wire) THEN wire[k] ELSE Piece(n)[k - Len(wire)]
    <3>1. /\ Len(wire \o Piece(n)) = Len(wire) + Len(Piece(n))
          /\ \A k \in 1 .. Len(wire) + Len(Piece(n)) :
               (wire \o Piece(n))[k] = IF k <= Len(wire) THEN wire[k] ELSE Piece(n)[k - Len(wire)]
      BY <2>1, <2>3, ConcatProperties
    <3>2. QED BY <1>4, <2>1, <3>1
  <2>5. \A k \in 1 .. Len(wire) : k \in 1 .. Len(wire) + n /\ k <= Len(wire)
    BY <1>1, <1>6
  <2>6. \A k \in 1 .. n : /\ Len(wire) + k \in 1 .. Len(wire) + n /\ ~(Len(wire) + k <= Len(wire))
                          /\ Len(wire) + k - Len(wire) = k
    BY <1>1, <1>6
  <2>7. \A k \in 1 .. Len(wire) : wire'[k] = wire[k]
    BY <2>4, <2>5
  <2>8. ASSUME NEW k \in 1 .. n PROVE wire'[Len(wire) + k] = <<Len(lens), total_sent + k>>
    <3>1. wire'[Len(wire) + k] = Piece(n)[Len(wire) + k - Len(wire)]
      BY <2>4, <2>6
    <3>2. QED BY <2>2, <2>6, <3>1
  <2>9. Len(wire') \in Nat
    <3>1. Len(wire) + n \in Nat
      BY <1>1, <1>6
    <3>2. QED BY <2>4, <3>1
  <2>10. QED BY <2>4, <2>7, <2>8, <2>9
<1>8. Complete' >= Complete /\ Complete' <= Len(lens) /\ Complete' \in Nat
  BY <1>1, <1>2, <1>3 DEF Complete
<1>9. ReceivedWhole'
  <2>1. \A k \in 1 .. Len(received) : Message(k)' = Message(k)
    BY <1>2 DEF Message
  <2>2. Len(received) <= Complete /\ \A k \in 1 .. Len(received) : received[k] = Message(k)
    BY DEF StreamInv, ReceivedWhole
  <2>3. Len(received) <= Complete'
    BY <1>1, <1>3, <1>8, <2>2
  <2>4. QED BY <1>2, <2>1, <2>2, <2>3 DEF ReceivedWhole
<1>10. Len(wire') > 0 => wire'[Len(wire')][2] >= HeaderLen
  BY <1>2, EmptySeq DEF HeaderWhole
<1>11. ASSUME result = "receiving"
       PROVE  InHand' /\ \E off : Offsets(off)' /\ OnTheWay(off)'
  <2>1. PICK off : Offsets(off) /\ OnTheWay(off)
    BY <1>11 DEF StreamInv
  <2>2. Offsets(off)' /\ InHand'
    <3>1. InHand /\ lens' = lens /\ received' = received /\ msg' = msg /\ total_len' = total_len
      BY <1>2, <1>11 DEF StreamInv
    <3>2. Offsets(off)'
      BY <2>1, <3>1 DEF Offsets
    <3>3. InHand'
      BY <3>1 DEF InHand, Current
    <3>4. QED BY <3>2, <3>3
  <2>3. Here(off)' = Here(off)
    BY <1>2 DEF Here, Current
  <2>4. off[Len(lens)] \in Nat
    BY <1>1, <1>3, <2>1, Numbers
  <2>5. /\ HandedOver(off) = off[Len(lens)] + total_sent
        /\ HandedOver(off)' = HandedOver(off) + n
    BY <1>1, <1>2, <1>3, <1>4, <1>6, <2>4 DEF HandedOver
  <2>6. Here(off) \in Nat
    BY <2>1, Whereabouts
  <2>7. HandedOver(off) \in Nat /\ Here(off) + Len(wire) = HandedOver(off)
    BY <1>2, <2>1, Numbers DEF OnTheWay
  <2>8. Here(off)' + Len(wire') = HandedOver(off)'
    BY <1>1, <1>6, <1>7, <2>3, <2>5, <2>6, <2>7
  <2>9. ASSUME NEW k \in 1 .. Len(wire') PROVE IsAt(wire[k], off, Here(off) + k)'
    <3>1. CASE k <= Len(wire)
      <4>1. k \in 1 .. Len(wire)
        BY <1>1, <1>7, <3>1
      <4>2. IsAt(wire[k], off, Here(off) + k)
        BY <2>1, <4>1 DEF OnTheWay
      <4>3. QED BY <1>2, <1>7, <2>3, <4>1, <4>2 DEF IsAt
    <3>2. CASE k > Len(wire)
      <4>1. PICK j \in 1 .. n : k = Len(wire) + j
        <5>1. k - Len(wire) \in 1 .. n /\ k = Len(wire) + (k - Len(wire))
          BY <1>1, <1>6, <1>7, <3>2
        <5>2. QED BY <5>1
      <4>2. wire'[k] = <<Len(lens), total_sent + j>>
        BY <1>7, <4>1
      <4>3. total_sent + j \in 1 .. lens[Len(lens)]
        BY <1>1, <1>4, <1>5
      <4>4. off[Len(lens)] + (total_sent + j) = Here(off) + k
        <5> DEFINE a == off[Len(lens)]
                   h == Here(off)
                   w == Len(wire)
        <5>1. a \in Nat /\ h \in Nat /\ w \in Nat /\ total_sent \in Nat /\ j \in Nat
          BY <1>1, <1>6, <2>4, <2>6
        <5>2. a + total_sent = h + w
          BY <2>5, <2>7
        <5> HIDE DEF a, h, w
        <5>3. a + (total_sent + j) = h + (w + j)
          BY <5>1, <5>2
        <5>4. off[Len(lens)] + (total_sent + j) = Here(off) + (Len(wire) + j)
          BY <5>3 DEF a, h, w
        <5>5. QED BY <4>1, <5>4
      <4>5. QED BY <1>2, <1>3, <2>3, <4>2, <4>3, <4>4 DEF IsAt
    <3>3. QED BY <1>1, <1>7, <3>1, <3>2
  <2>10. OnTheWay(off)'
    BY <1>2, <2>6, <2>7, <2>8, <2>9, <2>3, <1>1, <1>7 DEF OnTheWay
  <2>11. QED BY <2>2, <2>10
<1>12. QED BY <1>2, <1>6, <1>9, <1>10, <1>11 DEF StreamInv

LEMMA StreamClose ==
  ASSUME ~SplitHeaders, TypeOK, StreamInv, Close
  PROVE  StreamInv'
<1>1. Len(wire) \in Nat /\ wire \in Seq(Byte)
  BY DEF TypeOK
<1>2. /\ UNCHANGED <<lens, total_sent, total_len, msg, received, result>>
      /\ ended = "no" /\ ended' \in {"fin", "rst"}
  BY DEF Close, sender, receiver
<1>3. PICK n \in 0 .. Len(wire) :
        /\ Len(wire') = n /\ \A k \in 1 .. n : wire'[k] = wire[k]
        /\ ended' # "rst" => n = Len(wire)
  <2>1. CASE ended' = "fin" /\ UNCHANGED wire
    <3>1. Len(wire) \in 0 .. Len(wire)
      BY <1>1
    <3>2. QED BY <2>1, <3>1
  <2>2. ASSUME NEW n \in 0 .. Len(wire), wire' = SubSeq(wire, 1, n), ended' = "rst"
        PROVE  Len(wire') = n /\ \A k \in 1 .. n : wire'[k] = wire[k]
    <3>1. n \in Nat /\ \A k \in 1 .. n : wire[k] \in Byte
      BY <1>1
    <3>2. QED BY <2>2, <3>1, SubSeqProperties
  <2>3. QED BY <2>1, <2>2 DEF Close
<1>4. n \in Nat /\ n <= Len(wire)
  BY <1>1
<1>5. Len(wire') > 0 => wire'[Len(wire')][2] >= HeaderLen
  <2>1. CASE UNCHANGED wire
    BY <2>1 DEF StreamInv
  <2>2. CASE HeaderWhole(wire')
    BY <2>2, EmptySeq DEF HeaderWhole
  <2>3. QED BY <2>1, <2>2 DEF Close
<1>6. ReceivedWhole'
  BY <1>2 DEF StreamInv, ReceivedWhole, Complete, Message
<1>7. ASSUME result = "receiving"
      PROVE  InHand' /\ \E off : Offsets(off)' /\ OnTheWay(off)'
  <2>1. PICK off : Offsets(off) /\ OnTheWay(off)
    BY <1>7 DEF StreamInv
  <2>2. Offsets(off)' /\ InHand'
    <3>1. InHand /\ lens' = lens /\ received' = received /\ msg' = msg /\ total_len' = total_len
      BY <1>2, <1>7 DEF StreamInv
    <3>2. Offsets(off)'
      BY <2>1, <3>1 DEF Offsets
    <3>3. InHand'
      BY <3>1 DEF InHand, Current
    <3>4. QED BY <3>2, <3>3
  <2>3. Here(off)' = Here(off) /\ HandedOver(off)' = HandedOver(off)
    BY <1>2 DEF Here, Current, HandedOver
  <2>4. \A k \in 1 .. Len(wire') : IsAt(wire[k], off, Here(off) + k)'
    <3>1. ASSUME NEW k \in 1 .. Len(wire') PROVE IsAt(wire[k], off, Here(off) + k)'
      <4>1. k \in 1 .. Len(wire) /\ wire'[k] = wire[k]
        BY <1>1, <1>3, <1>4
      <4>2. IsAt(wire[k], off, Here(off) + k)
        BY <2>1, <4>1 DEF OnTheWay
      <4>3. QED BY <1>2, <2>3, <4>1, <4>2 DEF IsAt
    <3>2. QED BY <3>1
  <2>5. Here(off) \in Nat /\ HandedOver(off) \in Nat
    BY <2>1, Whereabouts, Numbers
  <2>6. Here(off) + Len(wire) = HandedOver(off)
    BY <1>2, <2>1 DEF OnTheWay
  <2>7. /\ Here(off) + n <= HandedOver(off)
        /\ ended' # "rst" => Here(off) + n = HandedOver(off)
    BY <1>1, <1>3, <1>4, <2>5, <2>6
  <2>8. OnTheWay(off)'
    BY <1>3, <2>3, <2>4, <2>7 DEF OnTheWay
  <2>9. QED BY <2>2, <2>8
<1>8. QED BY <1>2, <1>5, <1>6, <1>7 DEF StreamInv

(* The receiver: what recvall has is the beginning of the message it is in. *)
LEMMA StreamHeader ==
  ASSUME TypeOK, StreamInv, ReceiveHeader
  PROVE  StreamInv'
<1>1. /\ Len(lens) \in Nat /\ Len(wire) \in Nat /\ Len(msg) = 0
      /\ Current \in Nat /\ Current > 0 /\ wire \in Seq(Byte) /\ msg \in Seq(Byte)
      /\ \A n \in 1 .. Len(lens) : lens[n] \in Nat /\ HeaderLen < lens[n]
  BY Numbers DEF ReceiveHeader, Receiving, StreamInv, InHand, TypeOK
<1>2. /\ Recv(HeaderLen) /\ total_len' \in Decoded(msg') /\ result = "receiving"
      /\ UNCHANGED <<sender, ended, received>> /\ lens' = lens /\ total_sent' = total_sent
      /\ received' = received /\ result' = result
  BY DEF ReceiveHeader, Receiving, sender
<1>3. PICK off : Offsets(off) /\ OnTheWay(off)
  BY <1>2 DEF StreamInv
<1>4. PICK n \in 0 .. Len(wire) :
        /\ n = IF HeaderLen < Len(wire) THEN HeaderLen ELSE Len(wire)
        /\ Len(wire) > 0
        /\ msg' \in Seq(Byte) /\ Len(msg') = Len(msg) + n
        /\ \A k \in 1 .. n : msg'[Len(msg) + k] = wire[k]
  BY <1>1, <1>2, Sizes, RecvSplits
<1>5. n \in Nat /\ n <= HeaderLen /\ n > 0 /\ n <= Len(wire)
  BY <1>1, <1>4, Sizes
<1>6. \A k \in 1 .. n : Current <= Len(lens) /\ wire[k] = <<Current, k>>
  <2>1. ASSUME NEW k \in 1 .. n PROVE Current <= Len(lens) /\ wire[k] = <<Current, k>>
    <3>1. k \in 1 .. Len(wire) /\ k \in Nat /\ k <= HeaderLen
      BY <1>1, <1>5, Sizes
    <3>2. Current <= Len(lens) => Len(msg) + k <= lens[Current]
      BY <1>1, <3>1, Sizes
    <3>3. Len(msg) + k = k
      BY <1>1, <3>1
    <3>4. QED BY <1>3, <3>1, <3>2, <3>3, NextBytes
  <2>2. QED BY <2>1
<1>7. Current \in 1 .. Len(lens)
  <2>1. 1 \in 1 .. n
    BY <1>5
  <2>2. QED BY <1>1, <1>6, <2>1
<1>8. n = HeaderLen
  <2>1. CASE Len(wire) < HeaderLen
    <3>1. n = Len(wire) /\ n \in 1 .. n
      BY <1>1, <1>4, <1>5, <2>1, Sizes
    <3>2. wire[n][2] = n /\ wire[Len(wire)][2] >= HeaderLen
      BY <1>4, <1>6, <3>1 DEF StreamInv
    <3>3. QED BY <1>5, <2>1, <3>1, <3>2, Sizes
  <2>2. CASE ~(Len(wire) < HeaderLen)
    BY <1>1, <1>4, <2>2, Sizes
  <2>3. QED BY <2>1, <2>2
<1>9. Len(msg') = HeaderLen /\ \A k \in 1 .. HeaderLen : msg'[k] = <<Current, k>>
  <2>1. Len(msg') = HeaderLen
    BY <1>1, <1>4, <1>8, Sizes
  <2>2. ASSUME NEW k \in 1 .. HeaderLen PROVE msg'[k] = <<Current, k>>
    <3>1. Len(msg) + k = k
      BY <1>1, Sizes
    <3>2. msg'[Len(msg) + k] = wire[k]
      BY <1>4, <1>8
    <3>3. QED BY <1>6, <1>8, <3>1, <3>2
  <2>3. QED BY <2>1, <2>2
<1>10. msg' = Header(Current)
  <2>1. /\ Len(Header(Current)) = HeaderLen /\ Header(Current) \in Seq(Nat \X Nat)
        /\ \A k \in 1 .. HeaderLen : Header(Current)[k] = <<Current, k>>
    BY <1>7, HeadersDiffer
  <2>2. msg' \in Seq(Nat \X Nat)
    BY <1>4, SeqMonotonic DEF Byte
  <2>3. QED BY <1>9, <2>1, <2>2, SeqEqual
<1>11. total_len' = lens[Current]
  <2>1. Decoded(msg') = {lens[Current]}
    BY <1>7, <1>10, HeadersDiffer
  <2>2. QED BY <1>2, <2>1
<1>12. Current' = Current
  BY <1>2 DEF Current
<1>13. InHand'
  <2>1. lens[Current] \in Nat /\ HeaderLen < lens[Current]
    BY <1>1, <1>7
  <2>2. Current' <= Len(lens') /\ total_len' = lens'[Current'] /\ HeaderLen <= Len(msg')
        /\ Len(msg') <= total_len' /\ total_len' # Unread
    BY <1>2, <1>7, <1>9, <1>11, <1>12, <2>1, Sizes
  <2>3. \A k \in 1 .. Len(msg') : msg'[k] = <<Current', k>>
    BY <1>9, <1>12
  <2>4. QED BY <2>2, <2>3 DEF InHand
<1>14. /\ Offsets(off)' /\ OnTheWay(off)'
       /\ Len(wire') > 0 => wire'[Len(wire')][2] >= HeaderLen
  BY <1>2, <1>3, RecvKeepsStream, Sizes
<1>15. ReceivedWhole'
  BY <1>2 DEF StreamInv, ReceivedWhole, Complete, Message
<1>16. QED BY <1>2, <1>13, <1>14, <1>15 DEF StreamInv

LEMMA StreamRest ==
  ASSUME TypeOK, StreamInv, ReceiveRest
  PROVE  StreamInv'
<1>1. /\ InHand /\ total_len # Unread /\ Len(msg) < total_len /\ result = "receiving"
      /\ Recv(total_len - Len(msg)) /\ UNCHANGED <<sender, ended, received>>
      /\ lens' = lens /\ total_sent' = total_sent /\ total_len' = total_len
      /\ received' = received /\ result' = result
  BY DEF ReceiveRest, Receiving, StreamInv, sender
<1>2. /\ Current <= Len(lens) /\ total_len = lens[Current] /\ HeaderLen <= Len(msg)
      /\ \A k \in 1 .. Len(msg) : msg[k] = <<Current, k>>
  BY <1>1 DEF InHand
<1>3. /\ Len(lens) \in Nat /\ Len(wire) \in Nat /\ Len(msg) \in Nat
      /\ Current \in Nat /\ Current > 0 /\ wire \in Seq(Byte) /\ msg \in Seq(Byte)
  BY Numbers DEF TypeOK
<1>4. total_len \in Nat /\ total_len - Len(msg) \in Nat
  <2>1. Current \in 1 .. Len(lens)
    BY <1>2, <1>3
  <2>2. lens[Current] \in Nat
    BY <2>1, Numbers
  <2>3. QED BY <1>1, <1>2, <1>3, <2>2
<1>5. PICK off : Offsets(off) /\ OnTheWay(off)
  BY <1>1 DEF StreamInv
<1>6. PICK n \in 0 .. Len(wire) :
        /\ n = IF total_len - Len(msg) < Len(wire) THEN total_len - Len(msg) ELSE Len(wire)
        /\ msg' \in Seq(Byte) /\ Len(msg') = Len(msg) + n
        /\ \A k \in 1 .. Len(msg) : msg'[k] = msg[k]
        /\ \A k \in 1 .. n : msg'[Len(msg) + k] = wire[k]
  BY <1>1, <1>3, <1>4, RecvSplits
<1>7. n \in Nat /\ n <= Len(wire) /\ Len(msg) + n <= total_len
  BY <1>3, <1>4, <1>6
<1>8. ASSUME NEW k \in 1 .. Len(msg') PROVE msg'[k] = <<Current, k>>
  <2>1. CASE k <= Len(msg)
    <3>1. k \in 1 .. Len(msg)
      BY <1>3, <1>6, <1>7, <2>1
    <3>2. QED BY <1>2, <1>6, <3>1
  <2>2. CASE k > Len(msg)
    <3>1. PICK j \in 1 .. n : k = Len(msg) + j
      <4>1. k - Len(msg) \in 1 .. n /\ k = Len(msg) + (k - Len(msg))
        BY <1>3, <1>6, <1>7, <2>2
      <4>2. QED BY <4>1
    <3>2. j \in 1 .. Len(wire) /\ Len(msg) + j <= lens[Current]
      BY <1>2, <1>3, <1>4, <1>7
    <3>3. wire[j] = <<Current, Len(msg) + j>>
      BY <1>5, <3>2, NextBytes
    <3>4. QED BY <1>6, <3>1, <3>3
  <2>3. QED BY <1>3, <1>6, <1>7, <2>1, <2>2
<1>9. InHand'
  <2>1. Current' = Current /\ HeaderLen <= Len(msg') /\ Len(msg') <= total_len'
    <3>1. Current' = Current
      BY <1>1 DEF Current
    <3>2. HeaderLen <= Len(msg) + n
      BY <1>2, <1>3, <1>7, Sizes
    <3>3. QED BY <1>1, <1>6, <1>7, <3>1, <3>2
  <2>2. QED BY <1>1, <1>2, <1>8, <2>1 DEF InHand
<1>10. /\ Offsets(off)' /\ OnTheWay(off)'
       /\ Len(wire') > 0 => wire'[Len(wire')][2] >= HeaderLen
  BY <1>1, <1>4, <1>5, RecvKeepsStream
<1>11. ReceivedWhole'
  BY <1>1 DEF StreamInv, ReceivedWhole, Complete, Message
<1>12. QED BY <1>1, <1>9, <1>10, <1>11 DEF StreamInv

(* The end of a message is in what has been handed over, or beyond it.     *)
LEMMA WhereMessagesEnd ==
  ASSUME TypeOK, StreamInv, NEW off, Offsets(off), NEW n \in 1 .. Len(lens)
  PROVE  /\ off[n] \in Nat /\ lens[n] \in Nat /\ HandedOver(off) \in Nat
         /\ n <= Complete => off[n] + lens[n] <= HandedOver(off)
         /\ n > Complete => HandedOver(off) < off[n] + lens[n]
<1>1. /\ Len(lens) \in Nat /\ total_sent \in Nat /\ n \in Nat /\ Len(lens) # 0 /\ Len(lens) > 0
      /\ Len(lens) \in 1 .. Len(lens) /\ Len(off) = Len(lens) + 1
  <2>1. Len(lens) \in Nat /\ total_sent \in Nat
    BY Numbers
  <2>2. n \in Nat /\ n > 0 /\ n <= Len(lens)
    BY <2>1
  <2>3. Len(off) = Len(lens) + 1
    BY DEF Offsets
  <2>4. QED BY <2>1, <2>2, <2>3
<1>2. off[n] \in Nat /\ lens[n] \in Nat /\ HandedOver(off) \in Nat
  BY <1>1, Numbers
<1>3. lens[Len(lens)] \in Nat /\ off[Len(lens)] \in Nat
  BY <1>1, Numbers
<1>4. HandedOver(off) = off[Len(lens)] + total_sent
  BY <1>1 DEF HandedOver
<1>5. CASE n < Len(lens)
  <2>1. n \in 1 .. Len(off) /\ Len(lens) \in 1 .. Len(off)
    BY <1>1
  <2>2. off[n] + lens[n] <= off[Len(lens)]
    BY <1>5, <2>1 DEF Offsets
  <2>3. off[n] + lens[n] <= HandedOver(off)
    BY <1>1, <1>2, <1>3, <1>4, <2>2
  <2>4. n <= Complete
    BY <1>1, <1>5 DEF Complete
  <2>5. Complete \in Nat
    BY <1>1 DEF Complete
  <2>6. QED BY <1>1, <1>2, <2>3, <2>4, <2>5
<1>6. CASE n = Len(lens)
  <2>1. CASE Complete < Len(lens)
    <3>1. total_sent < lens[n] /\ Complete = Len(lens) - 1
      BY <1>6, <2>1, CompleteCases
    <3>2. HandedOver(off) < off[n] + lens[n]
      BY <1>1, <1>2, <1>4, <1>6, <3>1
    <3>3. QED BY <1>1, <1>2, <1>6, <3>1, <3>2
  <2>2. CASE ~(Complete < Len(lens))
    <3>1. Complete = Len(lens) /\ total_sent >= lens[n]
      <4>1. Complete \in Nat
        BY <1>1 DEF Complete
      <4>2. Complete >= Len(lens)
        BY <1>1, <2>2, <4>1
      <4>3. QED BY <1>1, <1>6, <4>2, CompleteCases
    <3>2. off[n] + lens[n] <= HandedOver(off)
      BY <1>1, <1>2, <1>4, <1>6, <3>1
    <3>3. QED BY <1>1, <1>2, <1>6, <3>1, <3>2
  <2>3. QED BY <2>1, <2>2
<1>7. QED BY <1>1, <1>5, <1>6

(* What recvall returns is the next message, and it has been given whole.  *)
LEMMA ReturnsMessage ==
  ASSUME TypeOK, StreamInv, Return
  PROVE  msg = Message(Current) /\ Current \in 1 .. Len(lens) /\ Current <= Complete
         /\ Len(msg) = lens[Current]
<1>1. /\ InHand /\ total_len # Unread /\ Len(msg) >= total_len /\ result = "receiving"
  BY DEF Return, Receiving, StreamInv
<1>2. /\ Current <= Len(lens) /\ total_len = lens[Current] /\ Len(msg) <= total_len
      /\ \A k \in 1 .. Len(msg) : msg[k] = <<Current, k>>
  BY <1>1 DEF InHand
<1>3. /\ Len(lens) \in Nat /\ Len(wire) \in Nat /\ Len(msg) \in Nat
      /\ Current \in Nat /\ Current > 0 /\ msg \in Seq(Byte)
  BY Numbers DEF TypeOK
<1>4. Current \in 1 .. Len(lens) /\ lens[Current] \in Nat
  BY <1>2, <1>3, Numbers
<1>5. Len(msg) = lens[Current]
  BY <1>1, <1>2, <1>3, <1>4
<1>6. msg = Message(Current)
  <2>1. msg \in Seq(Nat \X Nat) /\ Message(Current) \in Seq(Nat \X Nat)
    <3>1. msg \in Seq(Nat \X Nat)
      BY <1>3, SeqMonotonic DEF Byte
    <3>2. Message(Current) \in Seq(Nat \X Nat)
      BY <1>3, <1>4 DEF Message
    <3>3. QED BY <3>1, <3>2
  <2>2. Len(Message(Current)) = lens[Current] /\ \A k \in 1 .. lens[Current] : Message(Current)[k] = <<Current, k>>
    BY <1>4 DEF Message
  <2>3. QED BY <1>2, <1>5, <2>1, <2>2, SeqEqual
<1>7. PICK off : Offsets(off) /\ OnTheWay(off)
  BY <1>1 DEF StreamInv
<1>8. Here(off) <= HandedOver(off)
  <2>1. Here(off) \in Nat /\ HandedOver(off) \in Nat /\ Here(off) + Len(wire) <= HandedOver(off)
    BY <1>7, Numbers, Whereabouts DEF OnTheWay
  <2>2. QED BY <1>3, <2>1
<1>9. Current <= Complete
  <2>1. CASE Current > Complete
    <3>1. HandedOver(off) < off[Current] + lens[Current] /\ HandedOver(off) \in Nat /\ off[Current] \in Nat
      BY <1>4, <1>7, <2>1, WhereMessagesEnd
    <3>2. Here(off) = off[Current] + lens[Current]
      BY <1>5 DEF Here
    <3>3. QED BY <1>4, <1>8, <3>1, <3>2
  <2>2. Complete \in Nat
    BY <1>3, Numbers, CompleteCases DEF Complete
  <2>3. QED BY <1>3, <2>1, <2>2
<1>10. QED BY <1>4, <1>5, <1>6, <1>9

LEMMA StreamReturn ==
  ASSUME TypeOK, StreamInv, Return
  PROVE  StreamInv'
<1>1. /\ received' = Append(received, msg) /\ msg' = << >> /\ total_len' = Unread
      /\ UNCHANGED <<sender, ended, wire, result>>
      /\ lens' = lens /\ total_sent' = total_sent /\ wire' = wire /\ ended' = ended /\ result' = result
      /\ result = "receiving"
  BY DEF Return, Receiving, sender
<1>2. /\ msg = Message(Current) /\ Current \in 1 .. Len(lens) /\ Current <= Complete
      /\ Len(msg) = lens[Current]
  BY ReturnsMessage
<1>3. received \in Seq(Seq(Byte)) /\ Len(received) \in Nat /\ msg \in Seq(Byte)
      /\ Current = Len(received) + 1
  BY DEF TypeOK, Current
<1>4. /\ Len(received') = Current /\ received'[Current] = msg
      /\ \A n \in 1 .. Len(received) : received'[n] = received[n]
  BY <1>1, <1>3
<1>5. ReceivedWhole'
  <2>1. Complete' = Complete /\ \A n \in 1 .. Len(received) : Message(n)' = Message(n)
    BY <1>1 DEF Complete, Message
  <2>2. Message(Current) = [k \in 1 .. lens[Current] |-> <<Current, k>>]
    BY DEF Message
  <2>3. ASSUME NEW n \in 1 .. Len(received') PROVE received'[n] = Message(n)'
    <3>1. CASE n = Current
      <4>1. received'[n] = [k \in 1 .. lens[n] |-> <<n, k>>]
        BY <1>2, <1>4, <2>2, <3>1
      <4>2. QED BY <1>1, <4>1 DEF Message
    <3>2. CASE n \in 1 .. Len(received)
      BY <1>4, <2>1, <3>2 DEF StreamInv, ReceivedWhole
    <3>3. QED BY <1>3, <1>4, <3>1, <3>2
  <2>4. Len(received') <= Complete'
    BY <1>2, <1>4, <2>1
  <2>5. QED BY <2>3, <2>4 DEF ReceivedWhole
<1>6. PICK off : Offsets(off) /\ OnTheWay(off)
  BY <1>1 DEF StreamInv
<1>7. Offsets(off)' /\ HandedOver(off)' = HandedOver(off)
  BY <1>1, <1>6 DEF Offsets, HandedOver
<1>8. Here(off)' = Here(off)
  <2>1. Current' = Current + 1 /\ Len(msg') = 0
    BY <1>1, <1>4, EmptySeq DEF Current
  <2>2. off[Current + 1] = off[Current] + lens[Current]
    BY <1>2, <1>6 DEF Offsets
  <2>3. off[Current] \in Nat /\ lens[Current] \in Nat
    BY <1>2, <1>6, WhereMessagesEnd
  <2>4. QED BY <1>2, <2>1, <2>2, <2>3 DEF Here
<1>9. OnTheWay(off)'
  <2>1. ASSUME NEW k \in 1 .. Len(wire') PROVE IsAt(wire[k], off, Here(off) + k)'
    <3>1. IsAt(wire[k], off, Here(off) + k)
      BY <1>1, <1>6 DEF OnTheWay
    <3>2. QED BY <1>1, <1>8, <3>1 DEF IsAt
  <2>2. QED BY <1>1, <1>6, <1>7, <1>8, <2>1 DEF OnTheWay
<1>10. InHand'
  BY <1>1, EmptySeq DEF InHand
<1>11. /\ Len(lens') > 0 => total_sent' <= lens'[Len(lens')]
       /\ Len(wire') > 0 => wire'[Len(wire')][2] >= HeaderLen
  BY <1>1 DEF StreamInv
<1>12. QED BY <1>5, <1>7, <1>9, <1>10, <1>11 DEF StreamInv

LEMMA StreamEnd ==
  ASSUME StreamInv, ReceiveEnd
  PROVE  StreamInv'
<1>1. /\ result' = "closed" /\ lens' = lens /\ total_sent' = total_sent /\ wire' = wire
      /\ received' = received
  BY DEF ReceiveEnd, sender
<1>2. QED BY <1>1 DEF StreamInv, ReceivedWhole, Complete, Message

-----------------------------------------------------------------------------
(* What is on the way and in recvall's hands is always the right part of   *)
(* the stream.                                                             *)
THEOREM StreamKept ==
  ASSUME ~SplitHeaders
  PROVE  Spec => []StreamInv
<1>1. Init => StreamInv
  <2>1. SUFFICES ASSUME Init PROVE StreamInv
    OBVIOUS
  <2>2. /\ Len(lens) = 0 /\ Len(wire) = 0 /\ Len(received) = 0 /\ Len(msg) = 0 /\ total_len = Unread
        /\ lens = << >>
    BY <2>1, EmptySeq DEF Init
  <2>3. ReceivedWhole /\ InHand
    BY <2>2 DEF ReceivedWhole, InHand, Complete
  <2>4. Offsets(<<0>>) /\ OnTheWay(<<0>>)
    BY <2>2, Sizes DEF Offsets, OnTheWay, Here, Current, HandedOver
  <2>5. QED BY <2>2, <2>3, <2>4 DEF StreamInv
<1>2. TypeOK /\ StreamInv /\ [Next]_vars => StreamInv'
  <2>1. SUFFICES ASSUME TypeOK, StreamInv, [Next]_vars PROVE StreamInv'
    OBVIOUS
  <2>2. CASE UNCHANGED vars
    <3>1. /\ lens' = lens /\ total_sent' = total_sent /\ wire' = wire /\ ended' = ended
          /\ received' = received /\ result' = result /\ msg' = msg /\ total_len' = total_len
      BY <2>2 DEF vars, sender, receiver
    <3>2. ReceivedWhole' /\ (InHand => InHand')
      <4>1. ReceivedWhole'
        BY <2>1, <3>1 DEF ReceivedWhole, Complete, Message, StreamInv
      <4>2. InHand => InHand'
        BY <3>1 DEF InHand, Current
      <4>3. QED BY <4>1, <4>2
    <3>3. ASSUME NEW off, Offsets(off), OnTheWay(off) PROVE Offsets(off)' /\ OnTheWay(off)'
      BY <3>1, <3>3 DEF Offsets, OnTheWay, Here, Current, HandedOver, IsAt
    <3>4. QED BY <2>1, <3>1, <3>2, <3>3 DEF StreamInv
  <2>3. CASE \E l \in Lengths : sendall(l)
    BY <2>1, <2>3, StreamSendall
  <2>4. CASE Send
    BY <2>1, <2>4, StreamSend
  <2>5. CASE Close
    BY <2>1, <2>5, StreamClose
  <2>6. CASE Receiver
    BY <2>1, <2>6, StreamHeader, StreamRest, StreamReturn, StreamEnd DEF Receiver
  <2>7. QED BY <2>1, <2>2, <2>3, <2>4, <2>5, <2>6 DEF Next
<1>3. QED BY <1>1, <1>2, TypeCorrect, PTL DEF Spec

(* Where a header arrives whole, recvall finds every message boundary      *)
(* again: what it returns are the messages sendall was called with, whole, *)
(* in order, none missing, whatever their lengths, however full the        *)
(* buffers are and wherever send() and recv() cut the stream.              *)
THEOREM WholeMessages ==
  ASSUME ~SplitHeaders
  PROVE  Spec => []ReceivedWhole
<1>1. StreamInv => ReceivedWhole
  BY DEF StreamInv
<1>2. QED BY <1>1, StreamKept, PTL

(* Every step of Framing is one of Channel's, or changes nothing there.    *)
LEMMA GivenGrows ==
  ASSUME TypeOK, Send \/ \E l \in Lengths : sendall(l)
  PROVE  /\ Complete \in Nat /\ Complete' \in {Complete, Complete + 1}
         /\ \A n \in 1 .. Complete : Message(n)' = Message(n)
<1>1. /\ lens \in Seq(Lengths) /\ Len(lens) \in Nat /\ total_sent \in Nat
  BY DEF TypeOK
<1>2. Complete \in Nat /\ Complete <= Len(lens)
  BY <1>1, CompleteCases, EmptySeq DEF Complete
<1>3. CASE Send
  <2>1. lens' = lens /\ Complete < Len(lens)
    BY <1>3 DEF Send
  <2>2. Complete = Len(lens) - 1
    BY <2>1, CompleteCases
  <2>3. Complete' = Len(lens) - 1 \/ Complete' = Len(lens)
    BY <2>1 DEF Complete
  <2>4. QED BY <1>1, <1>2, <2>1, <2>2, <2>3 DEF Message
<1>4. ASSUME NEW l \in Lengths, sendall(l)
      PROVE  Complete' = Complete /\ \A n \in 1 .. Complete : Message(n)' = Message(n)
  <2>1. lens' = Append(lens, l) /\ total_sent' = 0 /\ Complete = Len(lens) /\ l > 0
    BY <1>4, Sizes DEF sendall
  <2>2. /\ Len(lens') = Len(lens) + 1 /\ lens'[Len(lens) + 1] = l
        /\ \A n \in 1 .. Len(lens) : lens'[n] = lens[n]
    BY <1>1, <2>1
  <2>3. lens' # << >>
    BY <1>1, <2>2, EmptySeq
  <2>4. Complete' = Complete
    BY <1>1, <2>1, <2>2, <2>3 DEF Complete
  <2>5. QED BY <2>1, <2>2, <2>4 DEF Message
<1>5. QED BY <1>2, <1>3, <1>4

(* What has been given, as Channel sees it. *)
Given == [n \in 1 .. Complete |-> Message(n)]

LEMMA ChannelSender ==
  ASSUME TypeOK, Send \/ \E l \in Lengths : sendall(l)
  PROVE  [AsChannel!Next]_(AsChannel!vars)
<1>1. /\ Complete \in Nat /\ Complete' \in {Complete, Complete + 1}
      /\ \A n \in 1 .. Complete : Message(n)' = Message(n)
  BY GivenGrows
<1>2. received' = received /\ ended' = ended /\ result' = result /\ ended = "no"
  BY DEF Send, sendall, receiver
<1>3. /\ Given \in Seq({Message(n) : n \in 1 .. Complete})
      /\ Len(Given) = Complete /\ \A n \in 1 .. Complete : Given[n] = Message(n)
  BY <1>1 DEF Given
<1>4. /\ Given' = [n \in 1 .. Complete' |-> Message(n)']
      /\ Len(Given') = Complete' /\ \A n \in 1 .. Complete' : Given'[n] = Message(n)'
  BY <1>1 DEF Given
<1>5. CASE Complete' = Complete
  <2>1. Given' = Given
    BY <1>1, <1>4, <1>5 DEF Given
  <2>2. QED BY <1>2, <2>1 DEF AsChannel!vars, Given
<1>6. CASE Complete' = Complete + 1
  <2>1. SubSeq(Given', 1, Len(Given)) = SubSeq(Given, 1, Len(Given))
    BY <1>1, <1>3, <1>4, <1>6
  <2>2. AsChannel!IsPrefix(Given, Given') /\ Len(Given') = Len(Given) + 1
    BY <1>1, <1>3, <1>4, <1>6, <2>1 DEF AsChannel!IsPrefix
  <2>3. AsChannel!Give
    BY <1>2, <2>2 DEF AsChannel!Give, Given
  <2>4. QED BY <2>3 DEF AsChannel!Next
<1>7. QED BY <1>1, <1>5, <1>6

LEMMA ChannelReceiver ==
  ASSUME TypeOK, StreamInv, Receiver
  PROVE  [AsChannel!Next]_(AsChannel!vars)
<1>1. lens' = lens /\ total_sent' = total_sent /\ ended' = ended /\ result = "receiving"
  BY DEF Receiver, ReceiveHeader, ReceiveRest, Return, ReceiveEnd, sender, Receiving
<1>2. Given' = Given
  BY <1>1 DEF Given, Complete, Message
<1>3. Complete \in Nat
  BY Numbers DEF Complete
<1>4. /\ Len(Given) = Complete /\ \A n \in 1 .. Complete : Given[n] = Message(n)
  BY <1>3 DEF Given
<1>5. CASE ReceiveHeader \/ ReceiveRest
  <2>1. received' = received /\ result' = result
    BY <1>5 DEF ReceiveHeader, ReceiveRest
  <2>2. QED BY <1>1, <1>2, <2>1 DEF AsChannel!vars, Given
<1>6. CASE Return
  <2>1. received' = Append(received, msg) /\ result' = result
    BY <1>6 DEF Return
  <2>2. msg = Message(Current) /\ Current <= Complete /\ Current \in 1 .. Len(lens)
    BY <1>6, ReturnsMessage
  <2>3. Len(received) < Len(Given) /\ msg = Given[Len(received) + 1]
    BY <1>3, <1>4, <2>2, Numbers DEF Current
  <2>4. AsChannel!Take
    BY <1>1, <1>2, <2>1, <2>3 DEF AsChannel!Take, Given
  <2>5. QED BY <2>4 DEF AsChannel!Next, AsChannel!Receiver
<1>7. CASE ReceiveEnd
  <2>1. /\ Len(wire) = 0 /\ ended # "no" /\ received' = received /\ result' = "closed"
        /\ total_len = Unread \/ Len(msg) < total_len
    BY <1>7, EmptySeq DEF ReceiveEnd
  <2>2. ASSUME ended = "fin" PROVE received = Given
    <3>1. PICK off : Offsets(off) /\ OnTheWay(off)
      BY <1>1 DEF StreamInv
    <3>2. Here(off) = HandedOver(off)
      <4>1. Here(off) \in Nat /\ HandedOver(off) \in Nat /\ Here(off) + Len(wire) = HandedOver(off)
        BY <2>2, <3>1, Numbers, Whereabouts DEF OnTheWay
      <4>2. QED BY <2>1, <4>1
    <3>3. Len(received) \in Nat /\ Len(received) <= Complete
      BY Numbers DEF StreamInv, ReceivedWhole
    <3>4. ASSUME Len(received) < Complete PROVE FALSE
      <4>1. Current \in 1 .. Len(lens) /\ Current <= Complete
        <5>1. Complete <= Len(lens)
          BY <1>3, Numbers, CompleteCases DEF Complete
        <5>2. QED BY <1>3, <3>3, <3>4, <5>1, Numbers DEF Current
      <4>2. /\ off[Current] \in Nat /\ lens[Current] \in Nat /\ HandedOver(off) \in Nat
            /\ off[Current] + lens[Current] <= HandedOver(off)
        BY <3>1, <4>1, WhereMessagesEnd
      <4>3. Len(msg) < lens[Current] /\ Len(msg) \in Nat
        <5>1. lens[Current] > 0 /\ Len(msg) \in Nat
          BY <4>1, Numbers, Sizes
        <5>2. InHand
          BY <1>1 DEF StreamInv
        <5>3. CASE total_len = Unread
          BY <5>1, <5>2, <5>3 DEF InHand
        <5>4. CASE total_len # Unread
          BY <2>1, <5>1, <5>2, <5>4 DEF InHand
        <5>5. QED BY <5>3, <5>4
      <4>4. QED BY <3>2, <4>2, <4>3 DEF Here
    <3>5. Len(received) = Complete
      BY <1>3, <3>3, <3>4
    <3>6. \A n \in 1 .. Complete : received[n] = Given[n]
      BY <1>4, <3>5 DEF StreamInv, ReceivedWhole
    <3>7. received = [n \in 1 .. Len(received) |-> received[n]]
      BY DEF TypeOK
    <3>8. QED BY <3>5, <3>6, <3>7, <1>4 DEF Given
  <2>3. ended \in {"fin", "rst"}
    BY <2>1 DEF TypeOK
  <2>4. AsChannel!NoticeEnd
    BY <1>1, <1>2, <2>1, <2>2, <2>3 DEF AsChannel!NoticeEnd, Given
  <2>5. QED BY <2>4 DEF AsChannel!Next, AsChannel!Receiver
<1>8. QED BY <1>5, <1>6, <1>7 DEF Receiver

(* Where a header arrives whole, sendall and recvall are a channel of      *)
(* whole messages: what Server, Client and ChatRooms take for granted of   *)
(* their queues (the safety of ImplementsChannel).  No step gives, takes   *)
(* or notices anything that Channel would not, and after a FIN recvall     *)
(* reports the close only when all that was given has been taken.          *)
THEOREM ChannelImplemented ==
  ASSUME ~SplitHeaders
  PROVE  Spec => AsChannel!Spec
<1>1. Init => AsChannel!Init
  <2>1. SUFFICES ASSUME Init PROVE AsChannel!Init
    OBVIOUS
  <2>2. Complete = 0
    BY <2>1, EmptySeq DEF Init, Complete
  <2>3. Given = << >>
    BY <2>2 DEF Given
  <2>4. QED BY <2>1, <2>3 DEF Init, AsChannel!Init, Given
<1>2. TypeOK /\ StreamInv /\ [Next]_vars => [AsChannel!Next]_(AsChannel!vars)
  <2>1. SUFFICES ASSUME TypeOK, StreamInv, [Next]_vars PROVE [AsChannel!Next]_(AsChannel!vars)
    OBVIOUS
  <2>2. CASE UNCHANGED vars
    <3>1. lens' = lens /\ total_sent' = total_sent /\ ended' = ended /\ received' = received /\ result' = result
      BY <2>2 DEF vars, sender, receiver
    <3>2. Given' = Given
      BY <3>1 DEF Given, Complete, Message
    <3>3. QED BY <3>1, <3>2 DEF AsChannel!vars, Given
  <2>3. CASE Send \/ \E l \in Lengths : sendall(l)
    BY <2>1, <2>3, ChannelSender
  <2>4. CASE Close
    <3>1. /\ lens' = lens /\ total_sent' = total_sent /\ received' = received /\ result' = result
          /\ ended = "no" /\ ended' \in {"fin", "rst"}
      BY <2>4 DEF Close, sender, receiver
    <3>2. Given' = Given
      BY <3>1 DEF Given, Complete, Message
    <3>3. AsChannel!End
      BY <3>1, <3>2 DEF AsChannel!End, Given
    <3>4. QED BY <3>3 DEF AsChannel!Next
  <2>5. CASE Receiver
    BY <2>1, <2>5, ChannelReceiver
  <2>6. QED BY <2>1, <2>2, <2>3, <2>4, <2>5 DEF Next
<1>3. QED BY <1>1, <1>2, TypeCorrect, StreamKept, PTL DEF Spec, AsChannel!Spec
=============================================================================
