----------------------------- MODULE CodecProofs -----------------------------
(***************************************************************************)
(* The wire format for all strings a user can type and the program can     *)
(* make, all times and all room ids: a message that fits its structure is  *)
(* read back as it was written.                                            *)
(***************************************************************************)
EXTENDS Codec, SequenceTheorems, TLAPS

-----------------------------------------------------------------------------
(***************************************************************************)
(* Numbers, and strings with their length in front.                        *)
(***************************************************************************)

(* The elements of a concatenation.                                        *)
LEMMA ConcatShape ==
  ASSUME NEW S, NEW s \in Seq(S), NEW t \in Seq(S), NEW c, c = s \o t
  PROVE  /\ c \in Seq(S) /\ Len(c) = Len(s) + Len(t)
         /\ \A k \in 1 .. Len(s) : c[k] = s[k]
         /\ \A k \in 1 .. Len(t) : c[Len(s) + k] = t[k]
<1>1. c \in Seq(S) /\ Len(c) = Len(s) + Len(t)
  BY ConcatProperties
<1>2. \A k \in 1 .. Len(s) : c[k] = s[k]
  BY SMT
<1>3. \A k \in 1 .. Len(t) : c[Len(s) + k] = t[k]
  BY SMT
<1>4. QED BY <1>1, <1>2, <1>3

(* The high and the low part of a number.                                  *)
LEMMA HighPart ==
  ASSUME NEW n \in Nat, n < 65536
  PROVE  n \div 256 \in 0 .. 255 /\ (n \div 256) % 256 = n \div 256
<1>1. PICK h : h = n \div 256
  OBVIOUS
<1>2. h \in Int /\ 256 * h <= n /\ n < 256 * h + 256
  BY <1>1, SMT
<1>3. h \in 0 .. 255
  BY <1>2, SMT
<1>4. h % 256 = h
  BY <1>3, SMT
<1>5. QED BY <1>1, <1>3, <1>4

LEMMA LowPart ==
  ASSUME NEW n \in Int
  PROVE  n % 256 \in 0 .. 255 /\ n = 256 * (n \div 256) + (n % 256)
BY SMT

LEMMA NothingHigher ==
  ASSUME NEW n \in Nat, n < 65536
  PROVE  n \div (256 * 256) = 0 /\ n \div (256 * 256 * 256) = 0
<1>1. \A k \in Nat : n < k => n \div k = 0
  BY SMT
<1>2. QED BY <1>1, SMT

(* Numbers of two bytes in as many bytes, and in four.                     *)
Short == 0 .. (Base * Base - 1)

LEMMA ShortNumber ==
  ASSUME NEW n \in Short
  PROVE  n \in Nat /\ n < 65536
BY SMT DEF Short, Base

LEMMA TwoBytes ==
  ASSUME NEW n \in Short
  PROVE  /\ Uint16(n) \in Seq(Byte) /\ Len(Uint16(n)) = 2
         /\ Base * Uint16(n)[1] + Uint16(n)[2] = n
<1>1. PICK h : h = n \div 256
  OBVIOUS
<1>2. PICK l : l = n % 256
  OBVIOUS
<1>3. h \in 0 .. 255 /\ h % 256 = h
  BY <1>1, HighPart, ShortNumber
<1>4. l \in 0 .. 255 /\ n = 256 * h + l
  <2>1. n \in Int
    BY ShortNumber
  <2>2. n % 256 \in 0 .. 255 /\ n = 256 * (n \div 256) + (n % 256)
    BY <2>1, LowPart
  <2>3. QED BY <1>1, <1>2, <2>2
<1>5. Uint16(n) = <<h, l>>
  BY <1>1, <1>2, <1>3 DEF Uint16, Base
<1>6. Byte = 0 .. 255
  BY SMT DEF Byte, Base
<1>7. <<h, l>> \in Seq(Byte) /\ Len(<<h, l>>) = 2 /\ <<h, l>>[1] = h /\ <<h, l>>[2] = l
  BY <1>3, <1>4, <1>6
<1>8. QED BY <1>4, <1>5, <1>7 DEF Base

LEMMA FourBytes ==
  ASSUME NEW n \in Short
  PROVE  /\ Uint32(n) \in Seq(Byte) /\ Len(Uint32(n)) = 4
         /\ Count32(Uint32(n), 0) = n
<1>1. PICK low : low = Uint16(n)
  OBVIOUS
<1>2. low \in Seq(Byte) /\ Len(low) = 2
  BY <1>1, TwoBytes
<1>0. Base * low[1] + low[2] = n
  BY <1>1, TwoBytes
<1>3. (n \div (Base * Base * Base)) % Base = 0 /\ (n \div (Base * Base)) % Base = 0
  <2>1. n \div (256 * 256) = 0 /\ n \div (256 * 256 * 256) = 0
    BY NothingHigher, ShortNumber
  <2>2. 0 % 256 = 0
    BY SMT
  <2>3. QED BY <2>1, <2>2 DEF Base
<1>4. PICK high : high = <<0, 0>>
  OBVIOUS
<1>5. 0 \in Byte
  BY SMT DEF Byte, Base
<1>6. high \in Seq(Byte) /\ Len(high) = 2 /\ high[1] = 0 /\ high[2] = 0
  BY <1>4, <1>5
<1>7. Uint32(n) = high \o low
  BY <1>1, <1>3, <1>4 DEF Uint32
<1>8. PICK all : all = high \o low
  OBVIOUS
<1>9. /\ all \in Seq(Byte) /\ Len(all) = 4
      /\ all[1] = 0 /\ all[2] = 0 /\ all[3] = low[1] /\ all[4] = low[2]
  <2>1. /\ all \in Seq(Byte) /\ Len(all) = Len(high) + Len(low)
        /\ \A k \in 1 .. Len(high) : all[k] = high[k]
        /\ \A k \in 1 .. Len(low) : all[Len(high) + k] = low[k]
    <3>1. high \in Seq(Byte) /\ low \in Seq(Byte)
      BY <1>2, <1>6
    <3>2. QED BY <1>8, <3>1, ConcatShape
  <2>2. all[1] = high[1] /\ all[2] = high[2] /\ all[2 + 1] = low[1] /\ all[2 + 2] = low[2]
    BY <1>2, <1>6, <2>1
  <2>3. QED BY <1>2, <1>6, <2>1, <2>2
<1>10. Count32(all, 0) = Base * low[1] + low[2]
  <2>1. low[1] \in Byte /\ low[2] \in Byte
    BY <1>2
  <2>2. PICK l1 : l1 = low[1]
    OBVIOUS
  <2>3. PICK l2 : l2 = low[2]
    OBVIOUS
  <2>4. Count32(all, 0) = Base * Base * (Base * 0 + 0) + (Base * l1 + l2)
    BY <1>9, <2>2, <2>3 DEF Count32, Count16
  <2>5. l1 \in Nat /\ l2 \in Nat
    BY <2>1, <2>2, <2>3, SMT DEF Byte, Base
  <2>6. QED BY <2>2, <2>3, <2>4, <2>5, SMT DEF Base
<1>11. QED BY <1>0, <1>7, <1>8, <1>9, <1>10

(* What a C string has in the buffer: its characters, then the terminator. *)
LEMMA TextShape ==
  ASSUME NEW s \in Seq(Character)
  PROVE  /\ Text(s) \in Seq(Byte) /\ Len(Text(s)) = Len(s) + 1
         /\ \A k \in 1 .. Len(s) : Text(s)[k] = s[k]
         /\ Text(s)[Len(s) + 1] = NUL
<1>1. Character \subseteq Byte /\ NUL \in Byte
  BY SMT DEF Character, Byte, Base, NUL
<1>2. s \in Seq(Byte)
  BY <1>1, SeqMonotonic
<1>3. PICK nul : nul = NUL
  OBVIOUS
<1>4. nul \in Byte
  BY <1>1, <1>3
<1>5. QED BY <1>2, <1>3, <1>4, AppendProperties DEF Text

(* The length counts the terminator, and takes one byte or two.            *)
LEMMA Counted8Shape ==
  ASSUME NEW s \in Seq(Character), Len(s) + 1 \in Byte
  PROVE  /\ Counted8(s) \in Seq(Byte) /\ Len(Counted8(s)) = Len(s) + 2
         /\ Counted8(s)[1] = Len(s) + 1
         /\ \A k \in 1 .. (Len(s) + 1) : Counted8(s)[1 + k] = Text(s)[k]
<1>1. PICK t : t = Text(s)
  OBVIOUS
<1>2. t \in Seq(Byte) /\ Len(t) = Len(s) + 1 /\ Len(s) \in Nat
  BY <1>1, TextShape
<1>3. PICK h : h = <<Len(s) + 1>>
  OBVIOUS
<1>4. Uint8(Len(t)) = h /\ h \in Seq(Byte) /\ Len(h) = 1 /\ h[1] = Len(s) + 1
  <2>1. PICK n : n = Len(s) + 1
    OBVIOUS
  <2>2. n \in Byte /\ Len(t) = n
    BY <1>2, <2>1
  <2>3. n % Base = n
    BY <2>2, SMT DEF Base, Byte
  <2>4. QED BY <1>3, <2>1, <2>2, <2>3 DEF Uint8
<1>5. Counted8(s) = h \o t
  BY <1>1, <1>4 DEF Counted8
<1>6. PICK all : all = h \o t
  OBVIOUS
<1>7. /\ all \in Seq(Byte) /\ Len(all) = Len(s) + 2 /\ all[1] = Len(s) + 1
      /\ \A k \in 1 .. (Len(s) + 1) : all[1 + k] = t[k]
  <2>1. /\ all \in Seq(Byte) /\ Len(all) = Len(h) + Len(t)
        /\ \A k \in 1 .. Len(h) : all[k] = h[k]
        /\ \A k \in 1 .. Len(t) : all[Len(h) + k] = t[k]
    <3>1. h \in Seq(Byte) /\ t \in Seq(Byte)
      BY <1>2, <1>4
    <3>2. QED BY <1>6, <3>1, ConcatShape
  <2>2. QED BY <1>2, <1>4, <2>1
<1>8. QED BY <1>1, <1>5, <1>6, <1>7

LEMMA Counted16Shape ==
  ASSUME NEW s \in Seq(Character), Len(s) + 1 \in Short
  PROVE  /\ Counted16(s) \in Seq(Byte) /\ Len(Counted16(s)) = Len(s) + 3
         /\ Base * Counted16(s)[1] + Counted16(s)[2] = Len(s) + 1
         /\ \A k \in 1 .. (Len(s) + 1) : Counted16(s)[2 + k] = Text(s)[k]
<1>1. PICK t : t = Text(s)
  OBVIOUS
<1>2. t \in Seq(Byte) /\ Len(t) = Len(s) + 1 /\ Len(s) \in Nat
  BY <1>1, TextShape
<1>3. PICK h : h = Uint16(Len(t))
  OBVIOUS
<1>4. h \in Seq(Byte) /\ Len(h) = 2
  BY <1>2, <1>3, TwoBytes
<1>0. Base * h[1] + h[2] = Len(s) + 1
  BY <1>2, <1>3, TwoBytes
<1>5. Counted16(s) = h \o t
  BY <1>1, <1>3 DEF Counted16
<1>6. PICK all : all = h \o t
  OBVIOUS
<1>7. /\ all \in Seq(Byte) /\ Len(all) = Len(s) + 3 /\ all[1] = h[1] /\ all[2] = h[2]
      /\ \A k \in 1 .. (Len(s) + 1) : all[2 + k] = t[k]
  <2>1. /\ all \in Seq(Byte) /\ Len(all) = Len(h) + Len(t)
        /\ \A k \in 1 .. Len(h) : all[k] = h[k]
        /\ \A k \in 1 .. Len(t) : all[Len(h) + k] = t[k]
    <3>1. h \in Seq(Byte) /\ t \in Seq(Byte)
      BY <1>2, <1>4
    <3>2. QED BY <1>6, <3>1, ConcatShape
  <2>2. QED BY <1>2, <1>4, <2>1
<1>8. QED BY <1>0, <1>1, <1>5, <1>6, <1>7

(* The frame: the header tells the length of what is sent, the type is the *)
(* fifth byte, the body follows.                                           *)
LEMMA FrameShape ==
  ASSUME NEW type \in MessageTypes, NEW body \in Seq(Byte), HeaderSize + Len(body) \in Short,
         NEW b, b = Serialized(type, body)
  PROVE  /\ b \in Seq(Byte) /\ Len(b) = HeaderSize + Len(body)
         /\ Count32(b, 0) = Len(b)
         /\ get_message_type(b) = type
         /\ \A k \in 1 .. Len(body) : b[HeaderSize + k] = body[k]
<1>1. PICK h : h = Uint32(4 + 1 + Len(body))
  OBVIOUS
<1>2. Len(body) \in Nat /\ 4 + 1 + Len(body) \in Short
  BY DEF HeaderSize
<1>3. h \in Seq(Byte) /\ Len(h) = 4 /\ Count32(h, 0) = 5 + Len(body)
  BY <1>1, <1>2, FourBytes
<1>4. PICK t : t = <<type>>
  OBVIOUS
<1>5. Uint8(type) = t /\ t \in Seq(Byte) /\ Len(t) = 1 /\ t[1] = type
  BY <1>4, SMT
  DEF Uint8, Base, Byte, MessageTypes, CHAT_MESSAGE, NAME_MESSAGE, JOIN_MESSAGE, REPLY_MESSAGE
<1>6. b = (h \o t) \o body
  BY <1>1, <1>5 DEF Serialized
<1>7. PICK front : front = h \o t
  OBVIOUS
<1>8. /\ front \in Seq(Byte) /\ Len(front) = 5 /\ front[5] = type
      /\ \A k \in 1 .. 4 : front[k] = h[k]
  <2>1. /\ front \in Seq(Byte) /\ Len(front) = Len(h) + Len(t)
        /\ \A k \in 1 .. Len(h) : front[k] = h[k]
        /\ \A k \in 1 .. Len(t) : front[Len(h) + k] = t[k]
    <3>1. h \in Seq(Byte) /\ t \in Seq(Byte)
      BY <1>3, <1>5
    <3>2. QED BY <1>7, <3>1, ConcatShape
  <2>2. front[4 + 1] = type
    BY <1>3, <1>5, <2>1
  <2>3. QED BY <1>3, <1>5, <2>1, <2>2
<1>9. /\ b \in Seq(Byte) /\ Len(b) = 5 + Len(body)
      /\ \A k \in 1 .. 5 : b[k] = front[k]
      /\ \A k \in 1 .. Len(body) : b[5 + k] = body[k]
  <2>1. /\ b \in Seq(Byte) /\ Len(b) = Len(front) + Len(body)
        /\ \A k \in 1 .. Len(front) : b[k] = front[k]
        /\ \A k \in 1 .. Len(body) : b[Len(front) + k] = body[k]
    <3>1. front \in Seq(Byte) /\ b = front \o body
      BY <1>6, <1>7, <1>8
    <3>2. QED BY <3>1, ConcatShape
  <2>2. QED BY <1>2, <1>8, <2>1
<1>10. Count32(b, 0) = Count32(h, 0)
  BY <1>8, <1>9 DEF Count32, Count16
<1>11. QED BY <1>3, <1>8, <1>9, <1>10 DEF HeaderSize, get_message_type

(* What is copied out of a buffer up to a string's terminator is the       *)
(* string.                                                                 *)
LEMMA ReadBack ==
  ASSUME NEW b \in Seq(Byte), NEW s \in Seq(Character), NEW at \in Nat,
         at + Len(s) + 1 <= Len(b),
         \A k \in 1 .. (Len(s) + 1) : b[at + k] = Text(s)[k]
  PROVE  CString(BytesAt(b, at, Len(s) + 1)) = s
<1>1. PICK c : c = BytesAt(b, at, Len(s) + 1)
  OBVIOUS
<1>2. PICK n : n = Len(s) /\ n \in Nat
  OBVIOUS
<1>3. at + 1 \in 1 .. (Len(b) + 1) /\ at + (n + 1) \in at .. Len(b)
  BY <1>2
<1>4. /\ c \in Seq(Byte) /\ Len(c) = n + 1
      /\ \A k \in 1 .. (n + 1) : c[k] = b[at + k]
  BY <1>1, <1>2, <1>3, SubSeqProperties DEF BytesAt
<1>5. \A k \in 1 .. n : c[k] = s[k] /\ s[k] # NUL
  BY <1>2, <1>4, TextShape DEF Character
<1>6. c[n + 1] = NUL
  BY <1>2, <1>4, TextShape
<1>7. PICK ends : ends = {k \in 1 .. Len(c) : c[k] = NUL}
  OBVIOUS
<1>8. ends = {n + 1}
  BY <1>2, <1>4, <1>5, <1>6, <1>7
<1>9. Min(ends) = n + 1
  BY <1>2, <1>8 DEF Min
<1>10. SelectInSeq(c, LAMBDA x : x = NUL) = n + 1
  BY <1>7, <1>8, <1>9 DEF SelectInSeq
<1>11. CString(c) = SubSeq(c, 1, n)
  <2>1. PICK m : m = SelectInSeq(c, LAMBDA x : x = NUL)
    OBVIOUS
  <2>2. CString(c) = SubSeq(c, 1, m - 1)
    BY <2>1 DEF CString
  <2>3. m - 1 = n
    BY <1>2, <1>10, <2>1
  <2>4. QED BY <2>2, <2>3
<1>12. SubSeq(c, 1, n) = s
  BY <1>2, <1>4, <1>5, SubSeqProperties, SeqEqual
<1>13. QED BY <1>1, <1>11, <1>12

-----------------------------------------------------------------------------
(***************************************************************************)
(* The messages.                                                           *)
(***************************************************************************)

LEMMA SmallSizes ==
  /\ \A n \in Nat : n < NAME_SIZE_LIMIT => n + 1 \in Byte /\ n + 1 <= NAME_SIZE_LIMIT
  /\ \A n \in Nat : n < REPLY_SIZE_LIMIT => n + 1 \in Byte /\ n + 1 <= REPLY_SIZE_LIMIT
  /\ \A n \in Nat : n <= TYPED_NAME_LIMIT => n + 1 \in Byte
  /\ \A n \in Nat : n < NAME_SIZE_LIMIT => ~(n + 1 > NAME_SIZE_LIMIT)
  /\ \A n \in Nat : n \in Byte => HeaderSize + (n + 1) \in Short
BY SMT DEF NAME_SIZE_LIMIT, TYPED_NAME_LIMIT, REPLY_SIZE_LIMIT, Byte, Base, Short, HeaderSize

(* A frame around one counted string, as a name and a reply are sent.      *)
LEMMA OneText ==
  ASSUME NEW type \in MessageTypes, NEW s \in Seq(Character), Len(s) + 1 \in Byte,
         NEW b, b = Serialized(type, Counted8(s))
  PROVE  /\ Len(b) = HeaderSize + 1 + Count8(b, HeaderSize) /\ Len(b) > 0
         /\ Count32(b, 0) = Len(b)
         /\ get_message_type(b) = type
         /\ Count8(b, HeaderSize) = Len(s) + 1
         /\ CString(BytesAt(b, HeaderSize + 1, Count8(b, HeaderSize))) = s
<1>1. PICK body : body = Counted8(s)
  OBVIOUS
<1>2. PICK n : n = Len(s) + 1 /\ n \in Nat /\ n > 0
  OBVIOUS
<1>3. /\ body \in Seq(Byte) /\ Len(body) = n + 1 /\ body[1] = n
      /\ \A k \in 1 .. n : body[1 + k] = Text(s)[k]
  BY <1>1, <1>2, Counted8Shape
<1>4. HeaderSize + Len(body) \in Short
  BY <1>2, <1>3, SmallSizes
<1>5. /\ b \in Seq(Byte) /\ Len(b) = HeaderSize + Len(body)
      /\ Count32(b, 0) = Len(b)
      /\ get_message_type(b) = type
      /\ \A k \in 1 .. Len(body) : b[HeaderSize + k] = body[k]
  BY <1>1, <1>3, <1>4, FrameShape
<1>6. HeaderSize = 5
  BY DEF HeaderSize
<1>7. Count8(b, HeaderSize) = n /\ Len(b) = 5 + 1 + n
  BY <1>2, <1>3, <1>5, <1>6 DEF Count8
<1>8. \A k \in 1 .. n : b[6 + k] = Text(s)[k]
  <2>1. SUFFICES ASSUME NEW k \in 1 .. n PROVE b[6 + k] = Text(s)[k]
    OBVIOUS
  <2>2. 1 + k \in 1 .. Len(body) /\ 5 + (1 + k) = 6 + k
    BY <1>2, <1>3
  <2>3. b[5 + (1 + k)] = body[1 + k]
    BY <1>5, <1>6, <2>2
  <2>4. QED BY <1>3, <2>2, <2>3
<1>9. CString(BytesAt(b, 6, n)) = s
  <2>1. 6 \in Nat /\ 6 + Len(s) + 1 <= Len(b)
    BY <1>2, <1>7
  <2>2. QED BY <1>2, <1>5, <1>8, <2>1, ReadBack
<1>10. QED BY <1>2, <1>5, <1>6, <1>7, <1>9

LEMMA NameMessage ==
  ASSUME NEW m \in {[name |-> n] : n \in TypedNames}, NEW b, b = name_message_serialize(m)
  PROVE  /\ Len(b) > 0 /\ Count32(b, 0) = Len(b) /\ get_message_type(b) = NAME_MESSAGE
         /\ HeaderSize + 1 + Count8(b, HeaderSize) = Len(b)
         /\ Len(m.name) < NAME_SIZE_LIMIT => name_message_deserialize(b) = m
<1>1. PICK s \in TypedNames : m = [name |-> s]
  OBVIOUS
<1>2. s \in Seq(Character) /\ Len(s) <= TYPED_NAME_LIMIT /\ Len(s) \in Nat
  BY <1>1, CodecAssumption
<1>3. Len(s) + 1 \in Byte
  BY <1>2, SmallSizes
<1>4. NAME_MESSAGE \in MessageTypes
  BY DEF MessageTypes
<1>5. b = Serialized(NAME_MESSAGE, Counted8(s))
  BY <1>1 DEF name_message_serialize
<1>6. /\ Len(b) = HeaderSize + 1 + Count8(b, HeaderSize) /\ Len(b) > 0
      /\ Count32(b, 0) = Len(b)
      /\ get_message_type(b) = NAME_MESSAGE
      /\ Count8(b, HeaderSize) = Len(s) + 1
      /\ CString(BytesAt(b, HeaderSize + 1, Count8(b, HeaderSize))) = s
  BY <1>2, <1>3, <1>4, <1>5, OneText
<1>7. ASSUME Len(m.name) < NAME_SIZE_LIMIT PROVE name_message_deserialize(b) = m
  <2>1. ~(Count8(b, HeaderSize) > NAME_SIZE_LIMIT)
    BY <1>1, <1>2, <1>6, <1>7, SmallSizes
  <2>2. name_message_deserialize(b) = [name |-> s]
    BY <1>6, <2>1, Zenon DEF name_message_deserialize
  <2>3. QED BY <1>1, <2>2
<1>8. QED BY <1>6, <1>7

LEMMA ReplyMessage ==
  ASSUME NEW m \in {[reply |-> x] : x \in Replies}, NEW b, b = reply_message_serialize(m)
  PROVE  /\ Len(b) > 0 /\ Count32(b, 0) = Len(b) /\ get_message_type(b) = REPLY_MESSAGE
         /\ Count8(b, HeaderSize) <= REPLY_SIZE_LIMIT
         /\ HeaderSize + 1 + Count8(b, HeaderSize) = Len(b)
         /\ reply_message_deserialize(b) = m
<1>1. PICK s \in Replies : m = [reply |-> s]
  OBVIOUS
<1>2. s \in Seq(Character) /\ Len(s) < REPLY_SIZE_LIMIT /\ Len(s) \in Nat
  BY <1>1, CodecAssumption
<1>3. Len(s) + 1 \in Byte /\ Len(s) + 1 <= REPLY_SIZE_LIMIT
  BY <1>2, SmallSizes
<1>4. REPLY_MESSAGE \in MessageTypes
  BY DEF MessageTypes
<1>5. b = Serialized(REPLY_MESSAGE, Counted8(s))
  BY <1>1 DEF reply_message_serialize
<1>6. /\ Len(b) = HeaderSize + 1 + Count8(b, HeaderSize) /\ Len(b) > 0
      /\ Count32(b, 0) = Len(b)
      /\ get_message_type(b) = REPLY_MESSAGE
      /\ Count8(b, HeaderSize) = Len(s) + 1
      /\ CString(BytesAt(b, HeaderSize + 1, Count8(b, HeaderSize))) = s
  BY <1>2, <1>3, <1>4, <1>5, OneText
<1>7. reply_message_deserialize(b) = m
  BY <1>1, <1>6 DEF reply_message_deserialize
<1>8. QED BY <1>3, <1>6, <1>7

LEMMA JoinMessage ==
  ASSUME NEW m \in {[room_id |-> r] : r \in RoomIds}, NEW b, b = join_message_serialize(m)
  PROVE  /\ Len(b) > 0 /\ Count32(b, 0) = Len(b) /\ get_message_type(b) = JOIN_MESSAGE
         /\ Len(b) = HeaderSize + 1
         /\ join_message_deserialize(b) = m
<1>1. PICK r \in RoomIds : m = [room_id |-> r]
  OBVIOUS
<1>2. r \in Byte
  BY CodecAssumption
<1>3. PICK body : body = <<r>>
  OBVIOUS
<1>4. body \in Seq(Byte) /\ Len(body) = 1 /\ body[1] = r
  BY <1>2, <1>3
<1>5. Uint8(r) = body
  <2>1. r % Base = r
    BY <1>2, SMT DEF Byte, Base
  <2>2. QED BY <1>3, <2>1 DEF Uint8
<1>6. JOIN_MESSAGE \in MessageTypes
  BY DEF MessageTypes
<1>7. b = Serialized(JOIN_MESSAGE, body)
  BY <1>1, <1>5 DEF join_message_serialize
<1>8. HeaderSize + Len(body) \in Short
  BY <1>4, SMT DEF HeaderSize, Short, Base
<1>9. /\ Len(b) = HeaderSize + Len(body)
      /\ Count32(b, 0) = Len(b)
      /\ get_message_type(b) = JOIN_MESSAGE
      /\ \A k \in 1 .. Len(body) : b[HeaderSize + k] = body[k]
  <2>1. body \in Seq(Byte)
    BY <1>4
  <2>2. QED BY <1>6, <1>7, <1>8, <2>1, FrameShape
<1>10. Len(b) = HeaderSize + 1 /\ b[HeaderSize + 1] = r /\ Len(b) > 0
  BY <1>4, <1>9 DEF HeaderSize
<1>11. join_message_deserialize(b) = m
  BY <1>1, <1>10 DEF join_message_deserialize, Count8
<1>12. QED BY <1>9, <1>10, <1>11

LEMMA TimeShape ==
  ASSUME NEW t \in Seq(Byte), Len(t) = 8
  PROVE  /\ Timestamp(t) \in Seq(Byte) /\ Len(Timestamp(t)) = 8
         /\ \A k \in 1 .. 4 : Timestamp(t)[k] = SubSeq(t, 5, 8)[k]
         /\ SubSeq(t, 5, 8) \in Seq(Byte) /\ Len(SubSeq(t, 5, 8)) = 4
<1>1. PICK low : low = SubSeq(t, 5, 8)
  OBVIOUS
<1>2. low \in Seq(Byte) /\ Len(low) = 4
  <2>1. \A i \in 5 .. 8 : i \in 1 .. 8
    OBVIOUS
  <2>2. \A i \in 5 .. 8 : t[i] \in Byte
    BY <2>1, ElementOfSeq
  <2>3. SubSeq(t, 5, 8) \in Seq(Byte)
    BY <2>2, SubSeqProperties
  <2>4. Len(SubSeq(t, 5, 8)) = 4
    BY <2>2, SubSeqProperties
  <2>5. QED BY <1>1, <2>3, <2>4
<1>3. PICK rest : rest = <<0, 0, 0, 0>>
  OBVIOUS
<1>4. rest \in Seq(Byte) /\ Len(rest) = 4
  <2>1. 0 \in Byte
    BY SMT DEF Byte, Base
  <2>2. QED BY <1>3, <2>1
<1>5. PICK all : all = low \o rest
  OBVIOUS
<1>6. /\ all \in Seq(Byte) /\ Len(all) = Len(low) + Len(rest)
      /\ \A k \in 1 .. Len(low) : all[k] = low[k]
  <2>1. low \in Seq(Byte) /\ rest \in Seq(Byte)
    BY <1>2, <1>4
  <2>2. QED BY <1>5, <2>1, ConcatShape
<1>7. Timestamp(t) = all
  BY <1>1, <1>3, <1>5 DEF Timestamp
<1>8. QED BY <1>1, <1>2, <1>4, <1>6, <1>7

LEMMA ChatSizes ==
  /\ \A n \in Nat : n < TEXT_SIZE_LIMIT => n + 1 \in Short /\ n + 1 <= TEXT_SIZE_LIMIT
  /\ \A n, x \in Nat : n < NAME_SIZE_LIMIT /\ x < TEXT_SIZE_LIMIT
                       => HeaderSize + (8 + (n + 2) + (x + 3)) \in Short
<1>1. \A k, c \in Nat : k < c => k \in 0 .. (c - 1)
  BY SMT
<1>2. \A k \in Nat : k < Base * Base => k \in Short
  <2>1. Base * Base \in Nat
    BY SMT DEF Base
  <2>2. QED BY <1>1, <2>1 DEF Short
<1>3. ASSUME NEW n \in Nat, n < TEXT_SIZE_LIMIT
      PROVE  n + 1 \in Short /\ n + 1 <= TEXT_SIZE_LIMIT
  <2>1. n + 1 \in Nat /\ n + 1 < Base * Base /\ n + 1 <= TEXT_SIZE_LIMIT
    BY <1>3, SMT DEF TEXT_SIZE_LIMIT, Base
  <2>2. QED BY <1>2, <2>1
<1>4. ASSUME NEW n \in Nat, NEW x \in Nat, n < NAME_SIZE_LIMIT, x < TEXT_SIZE_LIMIT
      PROVE  HeaderSize + (8 + (n + 2) + (x + 3)) \in Short
  <2>1. /\ HeaderSize + (8 + (n + 2) + (x + 3)) \in Nat
        /\ HeaderSize + (8 + (n + 2) + (x + 3)) < Base * Base
    BY <1>4, SMT DEF NAME_SIZE_LIMIT, TEXT_SIZE_LIMIT, Base, HeaderSize
  <2>2. QED BY <1>2, <2>1
<1>5. QED BY <1>3, <1>4

(* The body of a chat: the time, the name, the text.                       *)
LEMMA ChatBody ==
  ASSUME NEW time \in Seq(Byte), NEW name \in Seq(Byte), NEW text \in Seq(Byte),
         NEW body, body = time \o name \o text
  PROVE  /\ body \in Seq(Byte) /\ Len(body) = Len(time) + Len(name) + Len(text)
         /\ \A k \in 1 .. Len(time) : body[k] = time[k]
         /\ \A k \in 1 .. Len(name) : body[Len(time) + k] = name[k]
         /\ \A k \in 1 .. Len(text) : body[Len(time) + Len(name) + k] = text[k]
<1>1. PICK front : front = time \o name
  OBVIOUS
<1>2. /\ front \in Seq(Byte) /\ Len(front) = Len(time) + Len(name)
      /\ \A k \in 1 .. Len(time) : front[k] = time[k]
      /\ \A k \in 1 .. Len(name) : front[Len(time) + k] = name[k]
  BY <1>1, ConcatShape
<1>3. body = front \o text
  BY <1>1
<1>4. /\ body \in Seq(Byte) /\ Len(body) = Len(front) + Len(text)
      /\ \A k \in 1 .. Len(front) : body[k] = front[k]
      /\ \A k \in 1 .. Len(text) : body[Len(front) + k] = text[k]
  <2>1. front \in Seq(Byte)
    BY <1>2
  <2>2. QED BY <1>3, <2>1, ConcatShape
<1>5. Len(time) \in Nat /\ Len(name) \in Nat /\ Len(front) = Len(time) + Len(name)
  BY <1>2
<1>6. \A k \in 1 .. Len(time) : body[k] = time[k]
  BY <1>2, <1>4, <1>5
<1>7. \A k \in 1 .. Len(name) : body[Len(time) + k] = name[k]
  <2>1. SUFFICES ASSUME NEW k \in 1 .. Len(name) PROVE body[Len(time) + k] = name[k]
    OBVIOUS
  <2>2. Len(time) + k \in 1 .. Len(front) /\ front[Len(time) + k] = name[k]
    BY <1>2, <1>5
  <2>3. QED BY <1>4, <2>2
<1>8. QED BY <1>4, <1>5, <1>6, <1>7

(* The same offsets in the message.                                        *)
LEMMA ChatFields ==
  ASSUME NEW m \in ChatMessages, NEW b, b = chat_message_serialize(m)
  PROVE  /\ b \in Seq(Byte) /\ Len(b) = HeaderSize + 8 + (Len(m.name) + 2) + (Len(m.text) + 3)
         /\ Count32(b, 0) = Len(b) /\ get_message_type(b) = CHAT_MESSAGE
         /\ \A k \in 1 .. 8 : b[HeaderSize + k] = Timestamp(m.timestamp)[k]
         /\ \A k \in 1 .. (Len(m.name) + 2) : b[HeaderSize + 8 + k] = Counted8(m.name)[k]
         /\ \A k \in 1 .. (Len(m.text) + 3) :
              b[HeaderSize + 8 + (Len(m.name) + 2) + k] = Counted16(m.text)[k]
<1>0. PICK t \in Times, s \in Names, x \in Texts : m = [timestamp |-> t, name |-> s, text |-> x]
  BY DEF ChatMessages
<1>1. /\ s \in Seq(Character) /\ Len(s) \in Nat /\ Len(s) < NAME_SIZE_LIMIT
      /\ x \in Seq(Character) /\ Len(x) \in Nat /\ Len(x) < TEXT_SIZE_LIMIT
      /\ t \in Seq(Byte) /\ Len(t) = 8
  BY <1>0, CodecAssumption
<1>2. PICK time : time = Timestamp(t)
  OBVIOUS
<1>3. PICK name : name = Counted8(s)
  OBVIOUS
<1>4. PICK text : text = Counted16(x)
  OBVIOUS
<1>5. time \in Seq(Byte) /\ Len(time) = 8
  BY <1>1, <1>2, TimeShape
<1>6. name \in Seq(Byte) /\ Len(name) = Len(s) + 2
  BY <1>1, <1>3, SmallSizes, Counted8Shape
<1>7. text \in Seq(Byte) /\ Len(text) = Len(x) + 3
  BY <1>1, <1>4, ChatSizes, Counted16Shape
<1>8. PICK body : body = time \o name \o text
  OBVIOUS
<1>9. /\ body \in Seq(Byte) /\ Len(body) = 8 + Len(name) + Len(text)
      /\ \A k \in 1 .. 8 : body[k] = time[k]
      /\ \A k \in 1 .. Len(name) : body[8 + k] = name[k]
      /\ \A k \in 1 .. Len(text) : body[8 + Len(name) + k] = text[k]
  <2>1. time \in Seq(Byte) /\ name \in Seq(Byte) /\ text \in Seq(Byte)
    BY <1>5, <1>6, <1>7
  <2>2. /\ body \in Seq(Byte) /\ Len(body) = Len(time) + Len(name) + Len(text)
        /\ \A k \in 1 .. Len(time) : body[k] = time[k]
        /\ \A k \in 1 .. Len(name) : body[Len(time) + k] = name[k]
        /\ \A k \in 1 .. Len(text) : body[Len(time) + Len(name) + k] = text[k]
    BY <1>8, <2>1, ChatBody
  <2>3. Len(time) = 8
    BY <1>5
  <2>4. QED BY <2>2, <2>3
<1>10. HeaderSize + Len(body) \in Short
  <2>1. Len(body) = 8 + (Len(s) + 2) + (Len(x) + 3)
    BY <1>6, <1>7, <1>9
  <2>2. QED BY <1>1, <2>1, ChatSizes
<1>11. b = Serialized(CHAT_MESSAGE, body)
  BY <1>0, <1>2, <1>3, <1>4, <1>8 DEF chat_message_serialize
<1>12. CHAT_MESSAGE \in MessageTypes
  BY DEF MessageTypes
<1>13. /\ b \in Seq(Byte) /\ Len(b) = HeaderSize + Len(body)
       /\ Count32(b, 0) = Len(b)
       /\ get_message_type(b) = CHAT_MESSAGE
       /\ \A k \in 1 .. Len(body) : b[HeaderSize + k] = body[k]
  <2>1. body \in Seq(Byte)
    BY <1>9
  <2>2. QED BY <1>10, <1>11, <1>12, <2>1, FrameShape
<1>14. HeaderSize = 5
  BY DEF HeaderSize
<1>15. Len(b) = HeaderSize + 8 + (Len(s) + 2) + (Len(x) + 3)
  BY <1>1, <1>6, <1>7, <1>9, <1>13, <1>14
<1>16. \A k \in 1 .. 8 : b[5 + k] = time[k]
  <2>1. SUFFICES ASSUME NEW k \in 1 .. 8 PROVE b[5 + k] = time[k]
    OBVIOUS
  <2>2. k \in 1 .. Len(body)
    BY <1>1, <1>6, <1>7, <1>9
  <2>3. QED BY <1>9, <1>13, <1>14, <2>2
<1>17. \A k \in 1 .. (Len(s) + 2) : b[5 + 8 + k] = name[k]
  <2>1. SUFFICES ASSUME NEW k \in 1 .. (Len(s) + 2) PROVE b[5 + 8 + k] = name[k]
    OBVIOUS
  <2>2. 8 + k \in 1 .. Len(body) /\ body[8 + k] = name[k] /\ 5 + (8 + k) = 5 + 8 + k
    BY <1>1, <1>6, <1>7, <1>9
  <2>3. b[5 + (8 + k)] = body[8 + k]
    BY <1>13, <1>14, <2>2
  <2>4. QED BY <2>2, <2>3
<1>18. \A k \in 1 .. (Len(x) + 3) : b[5 + 8 + (Len(s) + 2) + k] = text[k]
  <2>1. SUFFICES ASSUME NEW k \in 1 .. (Len(x) + 3) PROVE b[5 + 8 + (Len(s) + 2) + k] = text[k]
    OBVIOUS
  <2>2. PICK j : j = 8 + Len(name) + k
    OBVIOUS
  <2>3. j \in 1 .. Len(body) /\ body[j] = text[k] /\ 5 + j = 5 + 8 + (Len(s) + 2) + k
    BY <1>1, <1>6, <1>7, <1>9, <2>2
  <2>4. b[5 + j] = body[j]
    BY <1>13, <1>14, <2>3
  <2>5. QED BY <2>3, <2>4
<1>19. m.timestamp = t /\ m.name = s /\ m.text = x
  BY <1>0
<1>20. QED BY <1>2, <1>3, <1>4, <1>13, <1>14, <1>15, <1>16, <1>17, <1>18, <1>19

(* Eight bytes of time are written, of which the first four are read.      *)
LEMMA TimeReadBack ==
  ASSUME NEW b \in Seq(Byte), Len(b) >= 13, NEW t \in Seq(Byte), Len(t) = 8,
         \A k \in 1 .. 8 : b[5 + k] = Timestamp(t)[k]
  PROVE  BytesAt(b, 5, 4) = SubSeq(t, 5, 8)
<1>1. PICK low : low = SubSeq(t, 5, 8)
  OBVIOUS
<1>2. low \in Seq(Byte) /\ Len(low) = 4
  BY <1>1, TimeShape
<1>3. \A k \in 1 .. 4 : b[5 + k] = low[k]
  <2>1. \A k \in 1 .. 4 : Timestamp(t)[k] = low[k]
    BY <1>1, TimeShape
  <2>2. \A k \in 1 .. 4 : k \in 1 .. 8
    OBVIOUS
  <2>3. QED BY <2>1, <2>2
<1>4. PICK c : c = BytesAt(b, 5, 4)
  OBVIOUS
<1>5. \A i \in 6 .. 9 : b[i] \in Byte
  <2>1. \A i \in 6 .. 9 : i \in 1 .. Len(b)
    OBVIOUS
  <2>2. QED BY <2>1, ElementOfSeq
<1>6. c = SubSeq(b, 6, 9)
  BY <1>4 DEF BytesAt
<1>7. c \in Seq(Byte)
  BY <1>5, <1>6, SubSeqProperties
<1>8. Len(c) = 4
  BY <1>5, <1>6, SubSeqProperties
<1>9. \A k \in 1 .. 4 : c[k] = b[5 + k]
  <2>1. \A k \in 1 .. (9 - 6 + 1) : c[k] = b[6 + k - 1]
    BY <1>5, <1>6, SubSeqProperties
  <2>2. QED BY <2>1
<1>10. c = low
  <2>1. \A k \in 1 .. Len(c) : c[k] = low[k]
    BY <1>3, <1>8, <1>9
  <2>2. Len(c) = Len(low) /\ low \in Seq(Byte)
    BY <1>2, <1>8
  <2>3. QED BY <1>7, <2>1, <2>2, SeqEqual
<1>11. QED BY <1>1, <1>4, <1>10

(* What the chat at the head of a buffer is read from.                     *)
ChatAt(b, at, n, x) ==
  [timestamp |-> <<0, 0, 0, 0>> \o BytesAt(b, HeaderSize, 4),
   name |-> CString(BytesAt(b, at, n)),
   text |-> CString(BytesAt(b, at + n + 2, x))]

LEMMA ChatReads ==
  ASSUME NEW b, NEW at, at = HeaderSize + 8 + 1, NEW n, n = Count8(b, at - 1),
         NEW x, x = Count16(b, (at + n + 2) - 2)
  PROVE  chat_message_deserialize(b) = ChatAt(b, at, n, x)
BY DEF chat_message_deserialize, ChatAt

LEMMA ChatMessage ==
  ASSUME NEW m \in ChatMessages, NEW b, b = chat_message_serialize(m)
  PROVE  /\ Len(b) > 0 /\ Count32(b, 0) = Len(b) /\ get_message_type(b) = CHAT_MESSAGE
         /\ LET n == Count8(b, HeaderSize + 8)
                x == Count16(b, HeaderSize + 8 + 1 + n)
            IN HeaderSize + 8 + 1 + n + 2 + x = Len(b)
         /\ chat_message_deserialize(b) =
              [m EXCEPT !.timestamp = <<0, 0, 0, 0>> \o SubSeq(@, 5, 8)]
<1>1. PICK t \in Times, s \in Names, x \in Texts : m = [timestamp |-> t, name |-> s, text |-> x]
  BY DEF ChatMessages
<1>2. /\ s \in Seq(Character) /\ Len(s) \in Nat /\ Len(s) < NAME_SIZE_LIMIT
      /\ x \in Seq(Character) /\ Len(x) \in Nat /\ Len(x) < TEXT_SIZE_LIMIT
      /\ t \in Seq(Byte) /\ Len(t) = 8
  BY <1>1, CodecAssumption
<1>3. HeaderSize = 5 /\ m.timestamp = t /\ m.name = s /\ m.text = x
  BY <1>1 DEF HeaderSize
<1>4. PICK n : n = Len(s) /\ n \in Nat
  BY <1>2
<1>5. PICK l : l = Len(x) /\ l \in Nat
  BY <1>2
<1>6. /\ b \in Seq(Byte) /\ Len(b) = 5 + 8 + (n + 2) + (l + 3)
      /\ Count32(b, 0) = Len(b) /\ get_message_type(b) = CHAT_MESSAGE
      /\ \A k \in 1 .. 8 : b[5 + k] = Timestamp(t)[k]
      /\ \A k \in 1 .. (n + 2) : b[5 + 8 + k] = Counted8(s)[k]
      /\ \A k \in 1 .. (l + 3) : b[5 + 8 + (n + 2) + k] = Counted16(x)[k]
  <2>1. /\ b \in Seq(Byte) /\ Len(b) = HeaderSize + 8 + (Len(m.name) + 2) + (Len(m.text) + 3)
        /\ Count32(b, 0) = Len(b) /\ get_message_type(b) = CHAT_MESSAGE
        /\ \A k \in 1 .. 8 : b[HeaderSize + k] = Timestamp(m.timestamp)[k]
        /\ \A k \in 1 .. (Len(m.name) + 2) : b[HeaderSize + 8 + k] = Counted8(m.name)[k]
        /\ \A k \in 1 .. (Len(m.text) + 3) :
             b[HeaderSize + 8 + (Len(m.name) + 2) + k] = Counted16(m.text)[k]
    BY ChatFields
  <2>2. QED BY <1>3, <1>4, <1>5, <2>1
<1>7. PICK name : name = Counted8(s)
  OBVIOUS
<1>8. name[1] = n + 1 /\ \A k \in 1 .. (n + 1) : name[1 + k] = Text(s)[k]
  BY <1>2, <1>4, <1>7, SmallSizes, Counted8Shape
<1>9. PICK text : text = Counted16(x)
  OBVIOUS
<1>10. /\ Base * text[1] + text[2] = l + 1
       /\ \A k \in 1 .. (l + 1) : text[2 + k] = Text(x)[k]
  BY <1>2, <1>5, <1>9, ChatSizes, Counted16Shape
<1>11. Count8(b, 13) = n + 1
  <2>1. 1 \in 1 .. (n + 2) /\ 5 + 8 + 1 = 14
    BY <1>4
  <2>2. b[14] = name[1]
    BY <1>6, <1>7, <2>1
  <2>3. QED BY <1>8, <2>2 DEF Count8
<1>12. \A k \in 1 .. (n + 1) : b[14 + k] = Text(s)[k]
  <2>1. SUFFICES ASSUME NEW k \in 1 .. (n + 1) PROVE b[14 + k] = Text(s)[k]
    OBVIOUS
  <2>2. 1 + k \in 1 .. (n + 2) /\ 5 + 8 + (1 + k) = 14 + k
    BY <1>4
  <2>3. b[14 + k] = name[1 + k]
    BY <1>6, <1>7, <2>2
  <2>4. QED BY <1>8, <2>3
<1>13. Count16(b, 14 + (n + 1)) = l + 1
  <2>1. 1 \in 1 .. (l + 3) /\ 2 \in 1 .. (l + 3)
    BY <1>5
  <2>2. /\ 5 + 8 + (n + 2) + 1 = 14 + (n + 1) + 1
        /\ 5 + 8 + (n + 2) + 2 = 14 + (n + 1) + 2
    BY <1>4
  <2>3. b[14 + (n + 1) + 1] = text[1] /\ b[14 + (n + 1) + 2] = text[2]
    BY <1>6, <1>9, <2>1, <2>2
  <2>4. QED BY <1>10, <2>3 DEF Count16
<1>14. \A k \in 1 .. (l + 1) : b[14 + (n + 1) + 2 + k] = Text(x)[k]
  <2>1. SUFFICES ASSUME NEW k \in 1 .. (l + 1) PROVE b[14 + (n + 1) + 2 + k] = Text(x)[k]
    OBVIOUS
  <2>2. 2 + k \in 1 .. (l + 3) /\ 5 + 8 + (n + 2) + (2 + k) = 14 + (n + 1) + 2 + k
    BY <1>4, <1>5
  <2>3. b[14 + (n + 1) + 2 + k] = text[2 + k]
    BY <1>6, <1>9, <2>2
  <2>4. QED BY <1>10, <2>3
<1>15. Len(b) = 14 + (n + 1) + 2 + (l + 1)
  BY <1>4, <1>5, <1>6
<1>16. Len(b) > 0
  BY <1>4, <1>5, <1>15
<1>18. CString(BytesAt(b, 14, n + 1)) = s
  <2>1. 14 \in Nat /\ 14 + Len(s) + 1 <= Len(b)
    BY <1>4, <1>5, <1>15
  <2>2. QED BY <1>2, <1>4, <1>6, <1>12, <2>1, ReadBack
<1>19. CString(BytesAt(b, 14 + (n + 1) + 2, l + 1)) = x
  <2>1. PICK at : at = 14 + (n + 1) + 2
    OBVIOUS
  <2>2. at \in Nat /\ at + Len(x) + 1 <= Len(b)
    BY <1>4, <1>5, <1>15, <2>1
  <2>3. \A k \in 1 .. (Len(x) + 1) : b[at + k] = Text(x)[k]
    BY <1>5, <1>14, <2>1
  <2>4. CString(BytesAt(b, at, Len(x) + 1)) = x
    BY <1>2, <1>6, <2>2, <2>3, ReadBack
  <2>5. QED BY <1>5, <2>1, <2>4
<1>20. BytesAt(b, 5, 4) = SubSeq(t, 5, 8)
  <2>1. Len(b) >= 13
    BY <1>4, <1>5, <1>6
  <2>2. QED BY <1>2, <1>6, <2>1, TimeReadBack
<1>21. HeaderSize + 8 = 13 /\ HeaderSize + 8 + 1 = 14
  BY <1>3
<1>22. chat_message_deserialize(b) =
         [timestamp |-> <<0, 0, 0, 0>> \o SubSeq(t, 5, 8), name |-> s, text |-> x]
  <2>1. PICK c : c = n + 1
    OBVIOUS
  <2>2. PICK d : d = l + 1
    OBVIOUS
  <2>3. c \in Nat /\ d \in Nat
    BY <1>4, <1>5, <2>1, <2>2
  <2>4. /\ Count8(b, 14 - 1) = c /\ Count16(b, (14 + c + 2) - 2) = d
        /\ CString(BytesAt(b, 14, c)) = s /\ CString(BytesAt(b, 14 + c + 2, d)) = x
    <3>1. 14 - 1 = 13 /\ (14 + c + 2) - 2 = 14 + c
      BY <2>3
    <3>2. QED BY <1>11, <1>13, <1>18, <1>19, <2>1, <2>2, <3>1
  <2>5. chat_message_deserialize(b) = ChatAt(b, 14, c, d)
    BY <1>21, <2>4, ChatReads
  <2>6. BytesAt(b, HeaderSize, 4) = SubSeq(t, 5, 8)
    BY <1>3, <1>20
  <2>7. QED BY <2>4, <2>5, <2>6 DEF ChatAt
<1>23. [m EXCEPT !.timestamp = <<0, 0, 0, 0>> \o SubSeq(@, 5, 8)] =
         [timestamp |-> <<0, 0, 0, 0>> \o SubSeq(t, 5, 8), name |-> s, text |-> x]
  BY <1>1
<1>24. LET c == Count8(b, HeaderSize + 8)
           d == Count16(b, HeaderSize + 8 + 1 + c)
       IN HeaderSize + 8 + 1 + c + 2 + d = Len(b)
  BY <1>11, <1>13, <1>15, <1>21
<1>25. QED BY <1>6, <1>16, <1>22, <1>23, <1>24

-----------------------------------------------------------------------------
(***************************************************************************)
(* The state is a message, then its bytes, then what is read of them.      *)
(***************************************************************************)

WireOf(m) ==
  CASE m[1] = CHAT_MESSAGE -> chat_message_serialize(m[2])
    [] m[1] = NAME_MESSAGE -> name_message_serialize(m[2])
    [] m[1] = JOIN_MESSAGE -> join_message_serialize(m[2])
    [] m[1] = REPLY_MESSAGE -> reply_message_serialize(m[2])

ReadFrom(b) ==
  LET type == get_message_type(b) IN
  <<type,
    CASE type = CHAT_MESSAGE -> chat_message_deserialize(b)
      [] type = NAME_MESSAGE -> name_message_deserialize(b)
      [] type = JOIN_MESSAGE -> join_message_deserialize(b)
      [] type = REPLY_MESSAGE -> reply_message_deserialize(b)
      [] OTHER -> NotYet>>

(* FieldsInMessage of the bytes b.                                         *)
Ends(b) ==
  CASE get_message_type(b) = CHAT_MESSAGE ->
         LET n == Count8(b, HeaderSize + 8)
             x == Count16(b, HeaderSize + 8 + 1 + n)
         IN HeaderSize + 8 + 1 + n + 2 + x = Len(b)
    [] get_message_type(b) = JOIN_MESSAGE -> Len(b) = HeaderSize + 1
    [] get_message_type(b) \in {NAME_MESSAGE, REPLY_MESSAGE} ->
         HeaderSize + 1 + Count8(b, HeaderSize) = Len(b)
    [] OTHER -> FALSE

LEMMA TypesDiffer ==
  /\ CHAT_MESSAGE # NAME_MESSAGE /\ CHAT_MESSAGE # JOIN_MESSAGE /\ CHAT_MESSAGE # REPLY_MESSAGE
  /\ NAME_MESSAGE # JOIN_MESSAGE /\ NAME_MESSAGE # REPLY_MESSAGE
  /\ JOIN_MESSAGE # REPLY_MESSAGE
BY SMT DEF CHAT_MESSAGE, NAME_MESSAGE, JOIN_MESSAGE, REPLY_MESSAGE

(* What is true of each type of message is true of every message.          *)
LEMMA EveryMessage ==
  ASSUME NEW m \in InputMessages, NEW b, b = WireOf(m)
  PROVE  Count32(b, 0) = Len(b) /\ Ends(b) /\ (Holds(m) => ReadFrom(b) = Carried(m))
<1>1. CASE m \in {CHAT_MESSAGE} \X ChatMessages
  <2>1. PICK c \in ChatMessages : m = <<CHAT_MESSAGE, c>>
    BY <1>1
  <2>2. m[1] = CHAT_MESSAGE /\ m[2] = c
    BY <2>1
  <2>3. b = chat_message_serialize(c)
    BY <2>2, TypesDiffer DEF WireOf
  <2>4. /\ Count32(b, 0) = Len(b) /\ get_message_type(b) = CHAT_MESSAGE
        /\ LET n == Count8(b, HeaderSize + 8)
               x == Count16(b, HeaderSize + 8 + 1 + n)
           IN HeaderSize + 8 + 1 + n + 2 + x = Len(b)
        /\ chat_message_deserialize(b) =
             [c EXCEPT !.timestamp = <<0, 0, 0, 0>> \o SubSeq(@, 5, 8)]
    BY <2>3, ChatMessage
  <2>5. Ends(b)
    BY <2>4, TypesDiffer DEF Ends
  <2>6. ReadFrom(b) = <<CHAT_MESSAGE, chat_message_deserialize(b)>>
    BY <2>4, TypesDiffer DEF ReadFrom
  <2>7. Carried(m) = <<CHAT_MESSAGE, [c EXCEPT !.timestamp = <<0, 0, 0, 0>> \o SubSeq(@, 5, 8)]>>
    BY <2>2 DEF Carried
  <2>8. QED BY <2>4, <2>5, <2>6, <2>7
<1>2. CASE m \in {NAME_MESSAGE} \X {[name |-> n] : n \in TypedNames}
  <2>1. PICK c \in {[name |-> n] : n \in TypedNames} : m = <<NAME_MESSAGE, c>>
    BY <1>2
  <2>2. m[1] = NAME_MESSAGE /\ m[2] = c
    BY <2>1
  <2>3. b = name_message_serialize(c)
    BY <2>2, TypesDiffer DEF WireOf
  <2>4. /\ Count32(b, 0) = Len(b) /\ get_message_type(b) = NAME_MESSAGE
        /\ HeaderSize + 1 + Count8(b, HeaderSize) = Len(b)
        /\ Len(c.name) < NAME_SIZE_LIMIT => name_message_deserialize(b) = c
    BY <2>3, NameMessage
  <2>5. Ends(b)
    BY <2>4, TypesDiffer DEF Ends
  <2>6. ReadFrom(b) = <<NAME_MESSAGE, name_message_deserialize(b)>>
    BY <2>4, TypesDiffer DEF ReadFrom
  <2>7. Carried(m) = m
    BY <2>2, TypesDiffer DEF Carried
  <2>8. Holds(m) => Len(c.name) < NAME_SIZE_LIMIT
    BY <2>2 DEF Holds
  <2>9. QED BY <2>1, <2>4, <2>5, <2>6, <2>7, <2>8
<1>3. CASE m \in {JOIN_MESSAGE} \X {[room_id |-> r] : r \in RoomIds}
  <2>1. PICK c \in {[room_id |-> r] : r \in RoomIds} : m = <<JOIN_MESSAGE, c>>
    BY <1>3
  <2>2. m[1] = JOIN_MESSAGE /\ m[2] = c
    BY <2>1
  <2>3. b = join_message_serialize(c)
    BY <2>2, TypesDiffer DEF WireOf
  <2>4. /\ Count32(b, 0) = Len(b) /\ get_message_type(b) = JOIN_MESSAGE
        /\ Len(b) = HeaderSize + 1
        /\ join_message_deserialize(b) = c
    BY <2>3, JoinMessage
  <2>5. Ends(b)
    BY <2>4, TypesDiffer DEF Ends
  <2>6. ReadFrom(b) = <<JOIN_MESSAGE, join_message_deserialize(b)>>
    BY <2>4, TypesDiffer DEF ReadFrom
  <2>7. Carried(m) = m
    BY <2>2, TypesDiffer DEF Carried
  <2>8. QED BY <2>1, <2>4, <2>5, <2>6, <2>7
<1>4. CASE m \in {REPLY_MESSAGE} \X {[reply |-> x] : x \in Replies}
  <2>1. PICK c \in {[reply |-> x] : x \in Replies} : m = <<REPLY_MESSAGE, c>>
    BY <1>4
  <2>2. m[1] = REPLY_MESSAGE /\ m[2] = c
    BY <2>1
  <2>3. b = reply_message_serialize(c)
    BY <2>2, TypesDiffer DEF WireOf
  <2>4. /\ Count32(b, 0) = Len(b) /\ get_message_type(b) = REPLY_MESSAGE
        /\ Count8(b, HeaderSize) <= REPLY_SIZE_LIMIT
        /\ HeaderSize + 1 + Count8(b, HeaderSize) = Len(b)
        /\ reply_message_deserialize(b) = c
    BY <2>3, ReplyMessage
  <2>5. Ends(b)
    BY <2>4, TypesDiffer DEF Ends
  <2>6. ReadFrom(b) = <<REPLY_MESSAGE, reply_message_deserialize(b)>>
    BY <2>4, TypesDiffer DEF ReadFrom
  <2>7. Carried(m) = m
    BY <2>2, TypesDiffer DEF Carried
  <2>8. QED BY <2>1, <2>4, <2>5, <2>6, <2>7
<1>5. QED BY <1>1, <1>2, <1>3, <1>4 DEF InputMessages

PathInv ==
  /\ msg \in InputMessages
  /\ buf = NotYet \/ buf = WireOf(msg)
  /\ out = NotYet \/ (Holds(msg) => out = Carried(msg))

LEMMA PathInvHolds == Spec => []PathInv
<1>1. Init => PathInv
  BY DEF Init, PathInv
<1>2. PathInv /\ [Next]_vars => PathInv'
  <2>1. SUFFICES ASSUME PathInv, [Next]_vars PROVE PathInv'
    OBVIOUS
  <2>2. CASE Serialize
    <3>1. buf' = WireOf(msg) /\ msg' = msg /\ out' = out
      BY <2>2 DEF Serialize, WireOf
    <3>2. QED BY <2>1, <3>1 DEF PathInv
  <2>3. CASE Deserialize
    <3>1. out' = ReadFrom(buf) /\ msg' = msg /\ buf' = buf /\ buf # NotYet
      BY <2>3 DEF Deserialize, ReadFrom
    <3>2. buf = WireOf(msg) /\ msg \in InputMessages
      BY <2>1, <3>1 DEF PathInv
    <3>3. Holds(msg) => out' = Carried(msg)
      BY <3>1, <3>2, EveryMessage
    <3>4. QED BY <2>1, <3>1, <3>3 DEF PathInv
  <2>4. CASE UNCHANGED vars
    BY <2>1, <2>4 DEF PathInv, vars
  <2>5. QED BY <2>1, <2>2, <2>3, <2>4 DEF Next
<1>3. QED BY <1>1, <1>2, PTL DEF Spec

(***************************************************************************)
(* Every message whose strings fit its structure is read as it was         *)
(* written, but for the high half of a chat's time (serialize and          *)
(* deserialize of each type).                                              *)
(***************************************************************************)
THEOREM ReadAsWritten == Spec => []RoundTrip
<1>1. PathInv => RoundTrip
  BY DEF PathInv, RoundTrip
<1>2. QED BY <1>1, PathInvHolds, PTL

(***************************************************************************)
(* The four bytes recvall reads first count the bytes of the message,      *)
(* whatever its type and contents.                                         *)
(***************************************************************************)
THEOREM HeaderCountsTheBytes == Spec => []HeaderTellsLength
<1>1. PathInv => HeaderTellsLength
  BY EveryMessage DEF PathInv, HeaderTellsLength
<1>2. QED BY <1>1, PathInvHolds, PTL

(***************************************************************************)
(* The counts within a message lead exactly to its end, whatever its type  *)
(* and contents, names too long for their field included: deserialize      *)
(* reads neither past the message nor short of it.  What it copies need    *)
(* not fit where it copies it (Undefined, for a long name).                *)
(***************************************************************************)
THEOREM FieldsEndWithTheMessage == Spec => []FieldsInMessage
<1>1. PathInv => FieldsInMessage
  <2>1. SUFFICES ASSUME PathInv, buf # NotYet PROVE Ends(buf)
    BY DEF FieldsInMessage, Ends
  <2>2. QED BY <2>1, EveryMessage DEF PathInv
<1>2. QED BY <1>1, PathInvHolds, PTL
=============================================================================
