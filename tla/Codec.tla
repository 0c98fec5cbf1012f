-------------------------------- MODULE Codec --------------------------------
(***************************************************************************)
(* The wire format (types/messages/*.c): each message type's serialize and *)
(* deserialize, byte by byte.  A number is written most significant byte   *)
(* first; a string is a sequence of characters and travels with its        *)
(* terminator.  A time is its eight bytes, most significant first, of      *)
(* which htonl keeps the last four; the eight bytes of the result are then *)
(* written as a little-endian machine holds them.                          *)
(***************************************************************************)
EXTENDS Naturals, Sequences, SequencesExt

CONSTANTS
  Names, Texts, Replies,  \* strings that fit their fields
  TypedNames,             \* names as users type them after /name
  Times,                  \* times, as eight bytes
  RoomIds                 \* room ids

Base == 256    \* values of a byte
NUL == 0

NAME_SIZE_LIMIT == 50
TYPED_NAME_LIMIT == 100    \* execute_command's "%100s"
TEXT_SIZE_LIMIT == 1000
REPLY_SIZE_LIMIT == 100

(* enum MessageType *)
CHAT_MESSAGE == 0
NAME_MESSAGE == 1
INVALID_MESSAGE == 2
JOIN_MESSAGE == 3
REPLY_MESSAGE == 4
MessageTypes == {CHAT_MESSAGE, NAME_MESSAGE, JOIN_MESSAGE, REPLY_MESSAGE}

Byte == 0 .. (Base - 1)
Character == Byte \ {NUL}

(* A field holds a string with its terminator.  A typed name need not fit. *)
ASSUME CodecAssumption ==
  /\ \A s \in Names : s \in Seq(Character) /\ Len(s) < NAME_SIZE_LIMIT
  /\ \A s \in TypedNames : s \in Seq(Character) /\ Len(s) <= TYPED_NAME_LIMIT
  /\ \A s \in Texts : s \in Seq(Character) /\ Len(s) < TEXT_SIZE_LIMIT
  /\ \A s \in Replies : s \in Seq(Character) /\ Len(s) < REPLY_SIZE_LIMIT
  /\ \A t \in Times : t \in Seq(Byte) /\ Len(t) = 8
  /\ RoomIds \subseteq Byte

VARIABLES
  msg,   \* the message structure to be sent
  buf,   \* the serialized message
  out    \* what deserialize fills in

vars == <<msg, buf, out>>

-----------------------------------------------------------------------------
(* Numbers of one, two and four bytes: what an assignment to the C type    *)
(* and htons or htonl make of n.                                           *)
Uint8(n) == <<n % Base>>
Uint16(n) == <<(n \div Base) % Base, n % Base>>
Uint32(n) == <<(n \div (Base * Base * Base)) % Base, (n \div (Base * Base)) % Base>> \o Uint16(n)

Text(s) == Append(s, NUL)

(* TIMESTAMP t = htonl(timestamp), as memcpy writes it *)
Timestamp(t) == SubSeq(t, 5, 8) \o <<0, 0, 0, 0>>

Serialized_TypeNotCounted(type, body) ==
  Uint32(4 + Len(body)) \o Uint8(type) \o body

(* Total length, type and body: the frame of every message. *)
Serialized(type, body) == Uint32(4 + 1 + Len(body)) \o Uint8(type) \o body

Counted8(s) == Uint8(Len(Text(s))) \o Text(s)

Counted16_OneByte(s) == <<0>> \o Uint8(Len(Text(s))) \o Text(s)

Counted16(s) == Uint16(Len(Text(s))) \o Text(s)

chat_message_serialize(m) ==
  Serialized(CHAT_MESSAGE, Timestamp(m.timestamp) \o Counted8(m.name) \o Counted16(m.text))

name_message_serialize(m) == Serialized(NAME_MESSAGE, Counted8(m.name))

join_message_serialize(m) == Serialized(JOIN_MESSAGE, Uint8(m.room_id))

reply_message_serialize(m) == Serialized(REPLY_MESSAGE, Counted8(m.reply))

-----------------------------------------------------------------------------
(* Reading a buffer at an offset. *)
BytesAt(b, at, n) == SubSeq(b, at + 1, at + n)

HeaderSize == 4 + 1    \* sizeof(TOTAL_MSG_LEN) + sizeof(MSG_TYPE)

get_message_type(b) == IF b[5] \in MessageTypes THEN b[5] ELSE INVALID_MESSAGE

(* The C string a buffer holds: everything before its first terminator. *)
CString(bytes) == SubSeq(bytes, 1, SelectInSeq(bytes, LAMBDA c : c = NUL) - 1)

(* ntohs and ntohl make one number of the bytes. *)
Count8(b, at) == b[at + 1]
Count16(b, at) == Base * b[at + 1] + b[at + 2]
Count32(b, at) == Base * Base * Count16(b, at) + Count16(b, at + 2)

chat_message_deserialize_ShortTime(b) ==
  LET name_at == HeaderSize + 4 + 1
      name_len == Count8(b, name_at - 1)
      text_at == name_at + name_len + 2
      text_len == Count16(b, text_at - 2)
  IN [timestamp |-> <<0, 0, 0, 0>> \o BytesAt(b, HeaderSize, 4),
      name |-> CString(BytesAt(b, name_at, name_len)),
      text |-> CString(BytesAt(b, text_at, text_len))]

chat_message_deserialize(b) ==
  LET name_at == HeaderSize + 8 + 1
      name_len == Count8(b, name_at - 1)
      text_at == name_at + name_len + 2
      text_len == Count16(b, text_at - 2)
  IN [timestamp |-> <<0, 0, 0, 0>> \o BytesAt(b, HeaderSize, 4),
      name |-> CString(BytesAt(b, name_at, name_len)),
      text |-> CString(BytesAt(b, text_at, text_len))]

(* More bytes than the field holds are copied past its end: what the field *)
(* is afterwards, C leaves undefined.                                      *)
Undefined == "undefined"

name_message_deserialize(b) ==
  LET name_len == Count8(b, HeaderSize)
  IN [name |-> IF name_len > NAME_SIZE_LIMIT THEN Undefined
               ELSE CString(BytesAt(b, HeaderSize + 1, name_len))]

join_message_deserialize(b) == [room_id |-> Count8(b, HeaderSize)]

reply_message_deserialize(b) ==
  [reply |-> CString(BytesAt(b, HeaderSize + 1, Count8(b, HeaderSize)))]

-----------------------------------------------------------------------------
NotYet == << >>

ChatMessages ==
  {[timestamp |-> t, name |-> n, text |-> x] : t \in Times, n \in Names, x \in Texts}

InputMessages ==
  ({CHAT_MESSAGE} \X ChatMessages)
    \cup ({NAME_MESSAGE} \X {[name |-> n] : n \in TypedNames})
    \cup ({JOIN_MESSAGE} \X {[room_id |-> r] : r \in RoomIds})
    \cup ({REPLY_MESSAGE} \X {[reply |-> x] : x \in Replies})

Init ==
  /\ msg \in InputMessages
  /\ buf = NotYet
  /\ out = NotYet

(* A name longer than the field is already past the field's end here; of   *)
(* what that may do, the client either never gets to send the message (no  *)
(* step is taken) or sends the name whole.                                 *)
Serialize ==
  /\ buf = NotYet
  /\ buf' = CASE msg[1] = CHAT_MESSAGE -> chat_message_serialize(msg[2])
              [] msg[1] = NAME_MESSAGE -> name_message_serialize(msg[2])
              [] msg[1] = JOIN_MESSAGE -> join_message_serialize(msg[2])
              [] msg[1] = REPLY_MESSAGE -> reply_message_serialize(msg[2])
  /\ UNCHANGED <<msg, out>>

(* The receiver goes by the type it finds in the buffer. *)
Deserialize ==
  /\ buf # NotYet /\ out = NotYet
  /\ LET type == get_message_type(buf) IN
     out' = <<type,
              CASE type = CHAT_MESSAGE -> chat_message_deserialize(buf)
                [] type = NAME_MESSAGE -> name_message_deserialize(buf)
                [] type = JOIN_MESSAGE -> join_message_deserialize(buf)
                [] type = REPLY_MESSAGE -> reply_message_deserialize(buf)
                [] OTHER -> NotYet>>
  /\ UNCHANGED <<msg, buf>>

Next == Serialize \/ Deserialize

Spec == Init /\ [][Next]_vars

-----------------------------------------------------------------------------
(* The time as far as 32 bits carry it. *)
Carried(m) ==
  IF m[1] = CHAT_MESSAGE
  THEN <<m[1], [m[2] EXCEPT !.timestamp = <<0, 0, 0, 0>> \o SubSeq(@, 5, 8)]>>
  ELSE m

(* The message is one its structure holds. *)
Holds(m) == m[1] = NAME_MESSAGE => Len(m[2].name) < NAME_SIZE_LIMIT

(***************************************************************************)
(* What one side serializes the other deserializes to the same message, at *)
(* every length a field may have, except that of a chat's time only the    *)
(* low 32 bits survive (serialize and deserialize of each message).  It    *)
(* says nothing of a name too long for its field, which is left undefined. *)
(***************************************************************************)
RoundTrip == out # NotYet /\ Holds(msg) => out = Carried(msg)

(***************************************************************************)
(* The length in a message's header, by which recvall finds the end of the *)
(* message, is the number of bytes sent.                                   *)
(***************************************************************************)
HeaderTellsLength == buf # NotYet => Count32(buf, 0) = Len(buf)

(***************************************************************************)
(* The counts in the buffer and the message's length agree: going from     *)
(* field to field by the counts, as deserialize does, it ends exactly      *)
(* where the message ends, whatever the lengths of the strings.            *)
(***************************************************************************)
FieldsInMessage ==
  buf # NotYet =>
    CASE get_message_type(buf) = CHAT_MESSAGE ->
           LET n == Count8(buf, HeaderSize + 8)
               x == Count16(buf, HeaderSize + 8 + 1 + n)
           IN HeaderSize + 8 + 1 + n + 2 + x = Len(buf)
      [] get_message_type(buf) = JOIN_MESSAGE -> Len(buf) = HeaderSize + 1
      [] get_message_type(buf) \in {NAME_MESSAGE, REPLY_MESSAGE} ->
           HeaderSize + 1 + Count8(buf, HeaderSize) = Len(buf)
      [] OTHER -> FALSE
=============================================================================
