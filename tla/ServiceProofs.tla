--------------------------- MODULE ServiceProofs ---------------------------
(***************************************************************************)
(* What the users of the chat server are promised, for any number of       *)
(* clients, rooms and messages: chat messages reach everyone in one order  *)
(* and each sender's in the order they were sent, nobody is sent what was  *)
(* said in a room it had not joined, a client's replies tell it its room,  *)
(* and the server implements the chat service.  And the server is the      *)
(* server of ChatRooms, in which clients and server are put together.      *)
(***************************************************************************)
EXTENDS ServerProofs, ServerRefinement, FiniteSetTheorems, WellFoundedInduction

-----------------------------------------------------------------------------
(***************************************************************************)
(* Sequences of messages: what was sent on one connection, or waits there  *)
(* to be read.                                                             *)
(***************************************************************************)
Chats(s) == {k \in DOMAIN s : s[k].type = "CHAT"}

(* What the properties and the invariants say of one or of two of them.    *)
Fifo(s) ==
  \A j, k \in Chats(s) : j < k /\ s[j].from = s[k].from => s[j].id < s[k].id

Agree(s, t) ==
  \A j, k \in Chats(s) : j < k =>
    /\ s[j].id # s[k].id
    /\ ~ \E a, b \in Chats(t) : a < b /\ t[a].id = s[k].id /\ t[b].id = s[j].id

Rising(s) == \A j, k \in Chats(s) : j < k => s[j].id < s[k].id

Apart(s, t) == \A j \in Chats(s), k \in Chats(t) : s[j].id # t[k].id

(* All of s was handled before what waits in t, from the client g.         *)
Before(s, t, g) ==
  \A j \in Chats(s), k \in Chats(t) :
    s[j].id # t[k].id /\ (s[j].from = g => s[j].id < t[k].id)

(* p is a stretch of s: so are a beginning of s and the rest of s.         *)
Stretch(p, s) ==
  \E d \in Nat : \A k \in 1 .. Len(p) : k + d \in 1 .. Len(s) /\ p[k] = s[k + d]

LEMMA ChatsOfStretch ==
  ASSUME NEW S, NEW s \in Seq(S), NEW p \in Seq(S), Stretch(p, s)
  PROVE  \E d \in Nat : \A k \in Chats(p) :
           k \in Nat /\ k + d \in Chats(s) /\ p[k] = s[k + d]
<1>1. PICK d \in Nat : \A k \in 1 .. Len(p) : k + d \in 1 .. Len(s) /\ p[k] = s[k + d]
  BY DEF Stretch
<1>2. DOMAIN p = 1 .. Len(p) /\ DOMAIN s = 1 .. Len(s)
  OBVIOUS
<1>3. ASSUME NEW k \in Chats(p)
      PROVE  k \in Nat /\ k + d \in Chats(s) /\ p[k] = s[k + d]
  <2>1. k \in 1 .. Len(p) /\ p[k].type = "CHAT"
    BY <1>2, <1>3 DEF Chats
  <2>2. k + d \in 1 .. Len(s) /\ p[k] = s[k + d]
    BY <1>1, <2>1
  <2>3. QED BY <1>2, <2>1, <2>2 DEF Chats
<1>4. QED BY <1>3

(* What holds of a sequence holds of its stretches.                        *)
LEMMA StretchKeeps ==
  ASSUME NEW S, NEW s \in Seq(S), NEW p \in Seq(S), Stretch(p, s)
  PROVE  /\ Fifo(s) => Fifo(p)
         /\ Rising(s) => Rising(p)
         /\ \A t : Agree(s, t) => Agree(p, t)
         /\ \A t : Agree(t, s) => Agree(t, p)
         /\ \A t : Apart(s, t) => Apart(p, t)
         /\ \A t : Apart(t, s) => Apart(t, p)
         /\ \A t, g : Before(s, t, g) => Before(p, t, g)
         /\ \A t, g : Before(t, s, g) => Before(t, p, g)
<1>1. PICK d \in Nat : \A k \in Chats(p) :
        k \in Nat /\ k + d \in Chats(s) /\ p[k] = s[k + d]
  BY ChatsOfStretch
<1>2. \A j, k \in Chats(p) : j < k => j + d < k + d
  BY <1>1
<1>3. (Fifo(s) => Fifo(p)) /\ (Rising(s) => Rising(p))
  BY <1>1, <1>2 DEF Fifo, Rising
<1>4. \A t : (Agree(s, t) => Agree(p, t)) /\ (Agree(t, s) => Agree(t, p))
  <2>1. ASSUME NEW t, Agree(s, t) PROVE Agree(p, t)
    <3>1. ASSUME NEW j \in Chats(p), NEW k \in Chats(p), j < k
          PROVE  /\ p[j].id # p[k].id
                 /\ ~ \E a, b \in Chats(t) :
                        a < b /\ t[a].id = p[k].id /\ t[b].id = p[j].id
      <4>1. /\ j + d \in Chats(s) /\ k + d \in Chats(s) /\ j + d < k + d
            /\ p[j] = s[j + d] /\ p[k] = s[k + d]
        BY <1>1, <1>2, <3>1
      <4>2. QED BY <2>1, <4>1 DEF Agree
    <3>2. QED BY <3>1 DEF Agree
  <2>2. ASSUME NEW t, Agree(t, s) PROVE Agree(t, p)
    <3>1. ASSUME NEW j \in Chats(t), NEW k \in Chats(t), j < k,
                 NEW a \in Chats(p), NEW b \in Chats(p), a < b,
                 p[a].id = t[k].id, p[b].id = t[j].id
          PROVE  FALSE
      <4>1. /\ a + d \in Chats(s) /\ b + d \in Chats(s) /\ a + d < b + d
            /\ s[a + d].id = t[k].id /\ s[b + d].id = t[j].id
        BY <1>1, <1>2, <3>1
      <4>2. QED BY <2>2, <3>1, <4>1 DEF Agree
    <3>2. QED BY <2>2, <3>1 DEF Agree
  <2>3. QED BY <2>1, <2>2
<1>5. \A t : (Apart(s, t) => Apart(p, t)) /\ (Apart(t, s) => Apart(t, p))
  BY <1>1 DEF Apart
<1>6. \A t, g : (Before(s, t, g) => Before(p, t, g)) /\ (Before(t, s, g) => Before(t, p, g))
  BY <1>1 DEF Before
<1>7. QED BY <1>3, <1>4, <1>5, <1>6

LEMMA EmptyIsStretch ==
  ASSUME NEW s PROVE Stretch(<< >>, s)
BY DEF Stretch

LEMMA SameIsStretch ==
  ASSUME NEW S, NEW s \in Seq(S) PROVE Stretch(s, s)
<1>1. \A k \in 1 .. Len(s) : k + 0 = k
  OBVIOUS
<1>2. QED BY <1>1 DEF Stretch

LEMMA FrontIsStretch ==
  ASSUME NEW S, NEW s \in Seq(S), NEW m
  PROVE  Stretch(s, Append(s, m))
<1>1. /\ Len(s) \in Nat /\ Len(Append(s, m)) = Len(s) + 1
      /\ \A k \in 1 .. Len(s) : Append(s, m)[k] = s[k]
  OBVIOUS
<1>2. \A k \in 1 .. Len(s) : k + 0 = k /\ k \in 1 .. Len(s) + 1
  BY <1>1
<1>3. QED BY <1>1, <1>2 DEF Stretch

LEMMA TailIsStretch ==
  ASSUME NEW S, NEW s \in Seq(S), Len(s) > 0
  PROVE  Stretch(Tail(s), s)
<1>1. s # << >> /\ Len(s) \in Nat
  BY EmptySeq
<1>2. /\ Len(Tail(s)) = Len(s) - 1
      /\ \A k \in 1 .. Len(Tail(s)) : Tail(s)[k] = s[k + 1]
  BY <1>1, HeadTailProperties
<1>3. \A k \in 1 .. Len(Tail(s)) : k + 1 \in 1 .. Len(s)
  BY <1>1, <1>2
<1>4. QED BY <1>2, <1>3 DEF Stretch


(* The chats of p are those of s and, at the end, perhaps the message m.   *)
Longer(p, s, m) ==
  \E n \in Nat : \A k \in Chats(p) :
    /\ k \in Nat
    /\ \/ k \in Chats(s) /\ p[k] = s[k] /\ k < n
       \/ k = n /\ p[k] = m /\ m.type = "CHAT"

LEMMA AppendIsLonger ==
  ASSUME NEW S, NEW s \in Seq(S), NEW m
  PROVE  Longer(s, s, m) /\ Longer(Append(s, m), s, m)
<1>1. /\ Len(s) \in Nat /\ DOMAIN s = 1 .. Len(s)
      /\ DOMAIN Append(s, m) = 1 .. Len(s) + 1
      /\ \A k \in 1 .. Len(s) : Append(s, m)[k] = s[k]
      /\ Append(s, m)[Len(s) + 1] = m
  OBVIOUS
<1>2. PICK p : p = Append(s, m)
  OBVIOUS
<1>3. \A k \in DOMAIN p : k = Len(s) + 1 \/ k \in DOMAIN s
  BY <1>1, <1>2
<1>4. \A k \in DOMAIN s : k \in Nat /\ k < Len(s) + 1
  BY <1>1
<1>5. Len(s) + 1 \in Nat
  BY <1>1
<1>6. ASSUME NEW k \in Chats(p)
      PROVE  /\ k \in Nat
             /\ \/ k \in Chats(s) /\ p[k] = s[k] /\ k < Len(s) + 1
                \/ k = Len(s) + 1 /\ p[k] = m /\ m.type = "CHAT"
  <2>1. k \in DOMAIN p /\ p[k].type = "CHAT"
    BY DEF Chats
  <2>2. CASE k \in DOMAIN s
    <3>1. p[k] = s[k]
      BY <1>1, <1>2, <2>2
    <3>2. QED BY <1>4, <2>1, <2>2, <3>1 DEF Chats
  <2>3. CASE k = Len(s) + 1
    BY <1>1, <1>2, <1>5, <2>1, <2>3
  <2>4. QED BY <1>3, <2>1, <2>2, <2>3
<1>7. Longer(p, s, m)
  BY <1>5, <1>6 DEF Longer
<1>8. Longer(s, s, m)
  BY <1>4, <1>5 DEF Longer, Chats
<1>9. QED BY <1>2, <1>7, <1>8

LEMMA LongerFifo ==
  ASSUME NEW s, NEW m, NEW p, Longer(p, s, m), Fifo(s),
         m.type = "CHAT" => \A j \in Chats(s) : s[j].from = m.from => s[j].id < m.id
  PROVE  Fifo(p)
BY DEF Longer, Fifo

LEMMA LongerRising ==
  ASSUME NEW s, NEW m, NEW p, Longer(p, s, m), Rising(s),
         m.type = "CHAT" => \A j \in Chats(s) : s[j].id < m.id
  PROVE  Rising(p)
BY DEF Longer, Rising

LEMMA LongerApart ==
  ASSUME NEW s, NEW t, NEW m, NEW p, Longer(p, s, m), Apart(s, t),
         m.type = "CHAT" => \A k \in Chats(t) : t[k].id # m.id
  PROVE  Apart(p, t) /\ Apart(t, p)
BY DEF Longer, Apart

(* More was handled, and more waits.                                       *)
LEMMA LongerBefore ==
  ASSUME NEW s, NEW t, NEW g, NEW m, NEW p, Longer(p, s, m), Before(s, t, g),
         m.type = "CHAT" =>
           \A k \in Chats(t) : m.id # t[k].id /\ (m.from = g => m.id < t[k].id)
  PROVE  Before(p, t, g)
BY DEF Longer, Before

LEMMA BeforeLonger ==
  ASSUME NEW s, NEW t, NEW g, NEW m, NEW p, Longer(p, t, m), Before(s, t, g),
         m.type = "CHAT" =>
           \A j \in Chats(s) : s[j].id # m.id /\ (s[j].from = g => s[j].id < m.id)
  PROVE  Before(s, p, g)
BY DEF Longer, Before

(* The same new message is added to both, to one or to none.               *)
LEMMA LongerAgree ==
  ASSUME NEW s, NEW t, NEW m, Agree(s, t),
         NEW p, Longer(p, s, m), NEW q, Longer(q, t, m),
         m.type = "CHAT" => \A j \in Chats(s) : s[j].id # m.id,
         m.type = "CHAT" => \A j \in Chats(t) : t[j].id # m.id
  PROVE  Agree(p, q)
<1>1. PICK n \in Nat : \A k \in Chats(p) :
        /\ k \in Nat
        /\ \/ k \in Chats(s) /\ p[k] = s[k] /\ k < n
           \/ k = n /\ p[k] = m /\ m.type = "CHAT"
  BY DEF Longer
<1>2. PICK l \in Nat : \A k \in Chats(q) :
        /\ k \in Nat
        /\ \/ k \in Chats(t) /\ q[k] = t[k] /\ k < l
           \/ k = l /\ q[k] = m /\ m.type = "CHAT"
  BY DEF Longer
<1> SUFFICES ASSUME NEW j \in Chats(p), NEW k \in Chats(p), j < k
             PROVE  /\ p[j].id # p[k].id
                    /\ ~ \E a, b \in Chats(q) :
                           a < b /\ q[a].id = p[k].id /\ q[b].id = p[j].id
  BY DEF Agree
<1>3. j \in Chats(s) /\ p[j] = s[j]
  BY <1>1
<1>4. CASE k \in Chats(s) /\ p[k] = s[k]
  <2>1. p[j].id # p[k].id
    BY <1>3, <1>4 DEF Agree
  <2>2. ASSUME NEW a \in Chats(q), NEW b \in Chats(q), a < b,
               q[a].id = p[k].id, q[b].id = p[j].id
        PROVE  FALSE
    <3>1. a \in Chats(t) /\ q[a] = t[a]
      BY <1>2, <2>2
    <3>2. b \in Chats(t) /\ q[b] = t[b]
      BY <1>2, <1>3, <2>2
    <3>3. QED BY <1>3, <1>4, <2>2, <3>1, <3>2 DEF Agree
  <2>3. QED BY <2>1, <2>2
<1>5. CASE p[k] = m /\ m.type = "CHAT"
  <2>1. p[j].id # p[k].id
    BY <1>3, <1>5
  <2>2. ASSUME NEW a \in Chats(q), NEW b \in Chats(q), a < b, q[a].id = m.id
        PROVE  FALSE
    <3>1. a \in Chats(t) /\ q[a] = t[a]
      BY <1>2, <2>2
    <3>2. QED BY <1>5, <2>2, <3>1
  <2>3. QED BY <1>5, <2>1, <2>2
<1>6. QED BY <1>1, <1>4, <1>5

(* The oldest message is taken.                                            *)
LEMMA ChatsOfHead ==
  ASSUME NEW S, NEW s \in Seq(S), Len(s) > 0
  PROVE  /\ Head(s).type = "CHAT" => 1 \in Chats(s) /\ s[1] = Head(s)
         /\ Rising(s) /\ Head(s).type = "CHAT" =>
              \A k \in Chats(Tail(s)) : Head(s).id < Tail(s)[k].id
<1>1. Len(s) \in Nat /\ DOMAIN s = 1 .. Len(s) /\ s # << >>
  BY EmptySeq
<1>2. 1 \in DOMAIN s /\ s[1] = Head(s)
  BY <1>1
<1>3. \A k \in DOMAIN Tail(s) : k \in Nat /\ k + 1 \in DOMAIN s /\ Tail(s)[k] = s[k + 1]
                                /\ 1 < k + 1
  <2>1. /\ Len(Tail(s)) = Len(s) - 1 /\ Tail(s) \in Seq(S)
        /\ \A k \in 1 .. Len(Tail(s)) : Tail(s)[k] = s[k + 1]
    BY <1>1, HeadTailProperties
  <2>2. DOMAIN Tail(s) = 1 .. Len(Tail(s))
    BY <2>1
  <2>3. QED BY <1>1, <2>1, <2>2
<1>4. ASSUME Rising(s), Head(s).type = "CHAT", NEW k \in Chats(Tail(s))
      PROVE  Head(s).id < Tail(s)[k].id
  <2>1. k + 1 \in Chats(s) /\ 1 \in Chats(s) /\ 1 < k + 1 /\ Tail(s)[k] = s[k + 1]
    BY <1>2, <1>3, <1>4 DEF Chats
  <2>2. QED BY <1>2, <1>4, <2>1 DEF Rising
<1>5. QED BY <1>2, <1>4 DEF Chats

-----------------------------------------------------------------------------
(***************************************************************************)
(* The room a client was told it is in.                                    *)
(***************************************************************************)

(* A set of positions has a greatest element.                              *)
LEMMA MaxOfPositions ==
  ASSUME NEW n \in Nat, NEW J \in SUBSET (1 .. n), J # {}
  PROVE  Max(J) \in J /\ \A k \in J : Max(J) >= k
<1> DEFINE D == {n - k : k \in J}
<1>1. J \subseteq Nat /\ \A k \in J : k <= n
  OBVIOUS
<1>2. D \subseteq Nat /\ D # {}
  <2>1. \A k \in J : n - k \in Nat
    BY <1>1
  <2>2. QED BY <2>1
<1>3. PICK d \in D : \A e \in D : ~ (<<e, d>> \in OpToRel(<, Nat))
  BY <1>2, NatLessThanWellFounded, WFMin
<1>4. \A e \in D : ~ (e < d)
  BY <1>2, <1>3 DEF OpToRel
<1>5. PICK m \in J : d = n - m
  OBVIOUS
<1>6. \A k \in J : m >= k
  BY <1>1, <1>4, <1>5
<1>7. \E x \in J : \A k \in J : x >= k
  BY <1>6
<1>8. QED BY <1>7 DEF Max

(* The greatest element of a set that gets a still greater one.            *)
LEMMA MaxOfMore ==
  ASSUME NEW J \in SUBSET Nat, NEW n \in Nat, \A k \in J : k < n
  PROVE  Max(J \cup {n}) = n
<1>1. \A k \in J \cup {n} : n >= k
  OBVIOUS
<1>2. \A x \in J \cup {n} : (\A k \in J \cup {n} : x >= k) => x = n
  OBVIOUS
<1>3. QED BY <1>1, <1>2 DEF Max

(* A reply that tells the client its room, and the room it tells.          *)
TellsRoom(m) == m.type = "REPLY" /\ m.reply \in {"already_in", "full", "joined"}

Told(m) == IF m.reply = "full" THEN InvalidRoom ELSE m.room

TellingUpTo(s, n) == {k \in 1 .. n : TellsRoom(s[k])}

(* What the first n messages tell.                                         *)
RoomHeard(s, n) ==
  IF TellingUpTo(s, n) = {} THEN InvalidRoom ELSE Told(s[Max(TellingUpTo(s, n))])

(* It depends on those messages alone.                                     *)
LEMMA RoomHeardSame ==
  ASSUME NEW s, NEW p, NEW n \in Nat, \A k \in 1 .. n : p[k] = s[k]
  PROVE  RoomHeard(p, n) = RoomHeard(s, n)
<1>1. TellingUpTo(p, n) = TellingUpTo(s, n)
  BY DEF TellingUpTo
<1>2. PICK J : J = TellingUpTo(s, n)
  OBVIOUS
<1>3. J \in SUBSET (1 .. n)
  BY <1>2 DEF TellingUpTo
<1>4. CASE J # {}
  <2>1. Max(J) \in 1 .. n
    BY <1>3, <1>4, MaxOfPositions
  <2>2. QED BY <1>1, <1>2, <2>1 DEF RoomHeard
<1>5. CASE J = {}
  BY <1>1, <1>2, <1>5 DEF RoomHeard
<1>6. QED BY <1>4, <1>5

(* One more message tells its room, or changes nothing.                    *)
LEMMA RoomHeardNext ==
  ASSUME NEW s, NEW n \in Nat
  PROVE  RoomHeard(s, n + 1) =
           IF TellsRoom(s[n + 1]) THEN Told(s[n + 1]) ELSE RoomHeard(s, n)
<1>1. 1 .. n + 1 = (1 .. n) \cup {n + 1}
  OBVIOUS
<1>2. CASE TellsRoom(s[n + 1])
  <2>1. TellingUpTo(s, n + 1) = TellingUpTo(s, n) \cup {n + 1}
    BY <1>1, <1>2 DEF TellingUpTo
  <2>2. TellingUpTo(s, n) \in SUBSET Nat /\ \A k \in TellingUpTo(s, n) : k < n + 1
    BY DEF TellingUpTo
  <2>3. Max(TellingUpTo(s, n) \cup {n + 1}) = n + 1
    BY <2>2, MaxOfMore
  <2>4. QED BY <1>2, <2>1, <2>3 DEF RoomHeard
<1>3. CASE ~TellsRoom(s[n + 1])
  <2>1. TellingUpTo(s, n + 1) = TellingUpTo(s, n)
    BY <1>1, <1>3 DEF TellingUpTo
  <2>2. QED BY <1>3, <2>1 DEF RoomHeard
<1>4. QED BY <1>2, <1>3

(* Every chat message is one of the room the client was told it is in.     *)
Isolated(s) == \A k \in Chats(s) : s[k].room = RoomHeard(s, k - 1)

LEMMA IsolatedFront ==
  ASSUME NEW S, NEW s \in Seq(S), NEW m, Isolated(Append(s, m))
  PROVE  Isolated(s)
<1>1. PICK p : p = Append(s, m)
  OBVIOUS
<1>2. /\ Len(s) \in Nat /\ DOMAIN s = 1 .. Len(s) /\ DOMAIN p = 1 .. Len(s) + 1
      /\ \A k \in 1 .. Len(s) : p[k] = s[k]
  BY <1>1
<1>3. ASSUME NEW k \in Chats(s) PROVE s[k].room = RoomHeard(s, k - 1)
  <2>1. k \in 1 .. Len(s) /\ k \in Chats(p) /\ p[k] = s[k]
    BY <1>2 DEF Chats
  <2>2. k - 1 \in Nat /\ \A j \in 1 .. k - 1 : j \in 1 .. Len(s)
    BY <1>2, <2>1
  <2>3. RoomHeard(p, k - 1) = RoomHeard(s, k - 1)
    BY <1>2, <2>2, RoomHeardSame
  <2>4. QED BY <1>1, <2>1, <2>3 DEF Isolated
<1>4. QED BY <1>3 DEF Isolated

(* A message is added: what is told, and that chats stay isolated.         *)
LEMMA RoomHeardAppend ==
  ASSUME NEW S, NEW s \in Seq(S), NEW m
  PROVE  /\ RoomHeard(Append(s, m), Len(Append(s, m))) =
              IF TellsRoom(m) THEN Told(m) ELSE RoomHeard(s, Len(s))
         /\ Isolated(s) /\ (m.type = "CHAT" => m.room = RoomHeard(s, Len(s)))
              => Isolated(Append(s, m))
<1>1. PICK p : p = Append(s, m)
  OBVIOUS
<1>2. /\ Len(s) \in Nat /\ DOMAIN s = 1 .. Len(s) /\ DOMAIN p = 1 .. Len(s) + 1
      /\ \A k \in 1 .. Len(s) : p[k] = s[k]
      /\ Len(p) = Len(s) + 1 /\ p[Len(s) + 1] = m
  BY <1>1
<1>3. RoomHeard(p, Len(s)) = RoomHeard(s, Len(s))
  BY <1>2, RoomHeardSame
<1>4. RoomHeard(p, Len(p)) = IF TellsRoom(m) THEN Told(m) ELSE RoomHeard(s, Len(s))
  BY <1>2, <1>3, RoomHeardNext
<1>5. ASSUME Isolated(s), m.type = "CHAT" => m.room = RoomHeard(s, Len(s))
      PROVE  Isolated(p)
  <2>1. ASSUME NEW k \in Chats(p) PROVE p[k].room = RoomHeard(p, k - 1)
    <3>1. k \in 1 .. Len(s) \/ k = Len(s) + 1
      BY <1>2 DEF Chats
    <3>2. CASE k = Len(s) + 1
      <4>1. p[k] = m /\ m.type = "CHAT" /\ k - 1 = Len(s)
        BY <1>2, <3>2 DEF Chats
      <4>2. QED BY <1>3, <1>5, <4>1
    <3>3. CASE k \in 1 .. Len(s)
      <4>1. k \in Chats(s) /\ p[k] = s[k]
        BY <1>2, <3>3 DEF Chats
      <4>2. k - 1 \in Nat /\ \A j \in 1 .. k - 1 : j \in 1 .. Len(s)
        BY <1>2, <3>3
      <4>3. RoomHeard(p, k - 1) = RoomHeard(s, k - 1)
        BY <1>2, <4>2, RoomHeardSame
      <4>4. QED BY <1>5, <4>1, <4>3 DEF Isolated
    <3>4. QED BY <3>1, <3>2, <3>3
  <2>2. QED BY <2>1 DEF Isolated
<1>6. QED BY <1>1, <1>4, <1>5

-----------------------------------------------------------------------------
(***************************************************************************)
(* The messages the server has committed itself to, which the properties   *)
(* speak of, and how each step changes them.                               *)
(***************************************************************************)

LEMMA CommittedType ==
  ASSUME TypeOK, NEW fd \in Fd
  PROVE  Committed(fd) \in Seq(SentMessages) /\ outbox[fd] \in Seq(SentMessages)
<1>1. outbox[fd] \in Seq(SentMessages)
  BY DEF TypeOK
<1>2. Occurs(fd, to) => msg \in SentMessages
  BY DEF TypeOK, Occurs
<1>3. QED BY <1>1, <1>2 DEF Committed

LEMMA CommittedTypeNext ==
  ASSUME TypeOK', NEW fd \in Fd
  PROVE  Committed(fd)' \in Seq(SentMessages')
<1>1. outbox'[fd] \in Seq(SentMessages')
  BY DEF TypeOK
<1>2. Occurs(fd, to') => msg' \in SentMessages'
  BY DEF TypeOK, Occurs
<1>3. QED BY <1>1, <1>2 DEF Committed

(* The properties, in the terms of this module.                            *)
LEMMA PropertiesOfMail ==
  ASSUME TypeOK
  PROVE  /\ SenderFifo <=> \A f \in Fd : Fifo(Committed(f))
         /\ SameOrder <=> \A f, g \in Fd : Agree(Committed(f), Committed(g))
         /\ RoomIsolation <=> \A f \in Fd : Isolated(Committed(f))
         /\ ToldRoom <=> \A f \in DOMAIN users : conn[f] = "open" =>
                           users[f].room = RoomHeard(Committed(f), Len(Committed(f)))
<1>1. \A f : ChatsTo(f) = Chats(Committed(f))
  BY DEF ChatsTo, Chats
<1>2. (SenderFifo <=> \A f \in Fd : Fifo(Committed(f)))
  BY <1>1 DEF SenderFifo, Fifo
<1>3. SameOrder <=> \A f, g \in Fd : Agree(Committed(f), Committed(g))
  BY <1>1 DEF SameOrder, Agree
<1>4. ASSUME NEW f \in Fd
      PROVE  /\ RoomTold(f) = RoomHeard(Committed(f), Len(Committed(f)))
             /\ \A n \in ChatsTo(f) : RoomAt(f, n) = RoomHeard(Committed(f), n - 1)
  <2>1. PICK s : s = Committed(f)
    OBVIOUS
  <2>2. Len(s) \in Nat /\ DOMAIN s = 1 .. Len(s)
    BY <2>1, CommittedType
  <2>3. JoinReplies(f) = TellingUpTo(s, Len(s))
    BY <2>1, <2>2 DEF JoinReplies, TellingUpTo, TellsRoom
  <2>4. RoomTold(f) = RoomHeard(s, Len(s))
    BY <2>1, <2>3 DEF RoomTold, RoomHeard, Told
  <2>5. ASSUME NEW n \in ChatsTo(f) PROVE RoomAt(f, n) = RoomHeard(s, n - 1)
    <3>1. n \in 1 .. Len(s)
      BY <2>1, <2>2 DEF ChatsTo
    <3>2. \A k : k \in 1 .. Len(s) /\ k < n <=> k \in 1 .. n - 1
      BY <2>2, <3>1
    <3>3. {k \in JoinReplies(f) : k < n} = TellingUpTo(s, n - 1)
      BY <2>3, <3>2 DEF TellingUpTo
    <3>4. QED BY <2>1, <3>3 DEF RoomAt, RoomHeard, Told
  <2>6. QED BY <2>1, <2>4, <2>5
<1>5. RoomIsolation <=> \A f \in Fd : Isolated(Committed(f))
  BY <1>1, <1>4 DEF RoomIsolation, Isolated
<1>6. ToldRoom <=> \A f \in DOMAIN users : conn[f] = "open" =>
                     users[f].room = RoomHeard(Committed(f), Len(Committed(f)))
  BY <1>4 DEF ToldRoom, TypeOK
<1>7. QED BY <1>2, <1>3, <1>5, <1>6

(* A list of receivers names nobody twice, a reply has one receiver, and   *)
(* what was sent to a client that left is forgotten with it.               *)
SendingInv ==
  /\ NoRepeats(to)
  /\ Len(to) > 0 /\ msg.type = "REPLY" => Len(to) = 1
  /\ \A fd \in Fd : conn[fd] # "open" => Len(outbox[fd]) = 0

LEMMA SendingInit == Init => SendingInv
<1> SUFFICES ASSUME Init PROVE SendingInv
  OBVIOUS
<1>1. Len(to) = 0
  BY DEF Init
<1>2. \A fd \in Fd : Len(outbox[fd]) = 0
  BY DEF Init
<1>3. QED BY <1>1, <1>2 DEF SendingInv, NoRepeats

(* What handling a message decides to send, and to whom.                   *)
LEMMA Handled ==
  ASSUME TypeOK, UsersAreConnections, RoomConsistency, NEW fd \in Fd, HandleMessage(fd)
  PROVE  /\ Running /\ to = << >> /\ fd \in DOMAIN users
         /\ Len(inbox[fd]) > 0
         /\ Received(fd) \in Requests(1 .. nsent, RoomRequests, NewNames)
         /\ inbox' = [inbox EXCEPT ![fd] = Tail(@)]
         /\ i' = i + 1
         /\ UNCHANGED <<arrays, status, backlog, conn, outbox, unread, nconn, nsent>>
         /\ \/ Received(fd).type = "CHAT" /\ handle_chat_message(fd, Received(fd))
            \/ Received(fd).type = "NAME" /\ handle_name_message(fd, Received(fd))
            \/ Received(fd).type = "JOIN" /\ handle_join_message(fd, Received(fd))
<1>1. Running /\ to = << >>
  BY DEF HandleMessage, AtClient, ReadyAt, Scanning
<1>2. fd \in DOMAIN users /\ user_table_find(users, fd)
  BY DEF HandleMessage, UsersAreConnections, user_table_find
<1>3. inbox[fd] \in Seq(Requests(1 .. nsent, RoomRequests, NewNames)) /\ inbox[fd] # << >>
  BY DEF HandleMessage, TypeOK
<1>4. Len(inbox[fd]) > 0 /\ Head(inbox[fd]) \in Requests(1 .. nsent, RoomRequests, NewNames)
  BY <1>3, EmptySeq, HeadTailProperties
<1>5. QED BY <1>1, <1>2, <1>4 DEF HandleMessage, Received

(* Everyone in the sender's room gets its message.                         *)
ChatSent(fd) ==
  /\ Received(fd).type = "CHAT" /\ users[fd].room \in RoomId
  /\ msg' = ChatMessage(Received(fd).id, fd, users[fd].name, users[fd].room)
  /\ to' = rooms[users[fd].room]
  /\ users' = users

(* The client gets an answer, which tells it its room if that is changed.  *)
ReplySent(fd) ==
  /\ msg'.type = "REPLY" /\ to' = <<fd>>
  /\ \A u \in DOMAIN users :
       users'[u].room = IF u = fd /\ TellsRoom(msg') THEN Told(msg') ELSE users[u].room

LEMMA HandledSends ==
  ASSUME TypeOK, UsersAreConnections, RoomConsistency, NEW fd \in Fd, HandleMessage(fd)
  PROVE  ChatSent(fd) \/ ReplySent(fd)
<1> DEFINE m == Received(fd)
<1>1. /\ fd \in DOMAIN users
      /\ users \in [DOMAIN users -> [room : RoomId \cup {InvalidRoom}, name : Names]]
  BY Handled DEF TypeOK
<1>2. \/ m.type = "CHAT" /\ handle_chat_message(fd, m)
      \/ m.type = "NAME" /\ handle_name_message(fd, m)
      \/ m.type = "JOIN" /\ handle_join_message(fd, m)
  BY Handled
<1> HIDE DEF m
<1>3. CASE m.type = "CHAT" /\ handle_chat_message(fd, m) /\ users[fd].room # InvalidRoom
  <2>1. ChatSent(fd)
    BY <1>1, <1>3 DEF ChatSent, handle_chat_message, m
  <2>2. QED BY <2>1
<1>4. CASE handle_chat_message(fd, m) /\ users[fd].room = InvalidRoom
  BY <1>4 DEF ReplySent, handle_chat_message, Reply, ReplyMessage, TellsRoom
<1>5. CASE handle_name_message(fd, m)
  <2>1. users' = [users EXCEPT ![fd].name = m.name] /\ Reply(fd, "named", InvalidRoom)
    BY <1>5 DEF handle_name_message
  <2>2. \A u \in DOMAIN users : users'[u].room = users[u].room
    BY <1>1, <2>1
  <2>3. QED BY <2>1, <2>2 DEF ReplySent, Reply, ReplyMessage, TellsRoom
<1>6. CASE JoinNoSuchRoom(fd, m.room) \/ JoinSameRoom(fd, m.room)
  BY <1>6 DEF JoinNoSuchRoom, JoinSameRoom, ReplySent, Reply, ReplyMessage, TellsRoom, Told
<1>7. CASE JoinFullRoom(fd, m.room)
  <2>1. users' = [users EXCEPT ![fd].room = InvalidRoom] /\ Reply(fd, "full", m.room)
    BY <1>7 DEF JoinFullRoom
  <2>2. \A u \in DOMAIN users :
          users'[u].room = IF u = fd THEN InvalidRoom ELSE users[u].room
    BY <1>1, <2>1
  <2>3. QED BY <2>1, <2>2 DEF ReplySent, Reply, ReplyMessage, TellsRoom, Told
<1>8. CASE JoinRoom(fd, m.room)
  <2>1. users' = [users EXCEPT ![fd].room = m.room] /\ Reply(fd, "joined", m.room)
    BY <1>8 DEF JoinRoom
  <2>2. \A u \in DOMAIN users : users'[u].room = IF u = fd THEN m.room ELSE users[u].room
    BY <1>1, <2>1
  <2>3. QED BY <2>1, <2>2 DEF ReplySent, Reply, ReplyMessage, TellsRoom, Told
<1>9. QED BY <1>2, <1>3, <1>4, <1>5, <1>6, <1>7, <1>8 DEF handle_join_message

(* Who receives it: nobody twice, and one client if it is an answer.       *)
LEMMA Receivers ==
  ASSUME TypeOK, UsersAreConnections, RoomConsistency, NEW fd \in Fd, HandleMessage(fd)
  PROVE  /\ NoRepeats(to')
         /\ msg'.type = "REPLY" => Len(to') = 1
         /\ ChatSent(fd) => /\ msg'.type = "CHAT"
                            /\ \A u \in Fd : Occurs(u, to') <=>
                                 u \in DOMAIN users /\ users[u].room = users[fd].room
         /\ ReplySent(fd) => \A u : Occurs(u, to') <=> u = fd
<1>1. CASE ChatSent(fd)
  <2>1. users[fd].room \in RoomId /\ to' = rooms[users[fd].room] /\ msg'.type = "CHAT"
    BY <1>1 DEF ChatSent, ChatMessage
  <2>2. ~ReplySent(fd)
    BY <2>1 DEF ReplySent
  <2>3. QED BY <2>1, <2>2 DEF RoomConsistency
<1>2. CASE ReplySent(fd)
  <2>1. to' = <<fd>> /\ msg'.type = "REPLY" /\ ~ChatSent(fd)
    BY <1>2 DEF ReplySent, ChatSent, ChatMessage
  <2>2. Len(to') = 1 /\ to'[1] = fd
    BY <2>1
  <2>3. NoRepeats(to') /\ \A u : Occurs(u, to') <=> u = fd
    BY <2>2 DEF NoRepeats, Occurs
  <2>4. QED BY <2>1, <2>2, <2>3
<1>3. QED BY <1>1, <1>2, HandledSends

(* Each of them that has not left gets one more message.                   *)
LEMMA MailOfHandled ==
  ASSUME TypeOK, UsersAreConnections, RoomConsistency, NEW fd \in Fd, HandleMessage(fd),
         NEW u \in Fd
  PROVE  /\ Committed(u) = outbox[u]
         /\ Committed(u)' = IF conn[u] = "open" /\ Occurs(u, to')
                            THEN Append(Committed(u), msg') ELSE Committed(u)
<1>1. Len(to) = 0 /\ outbox' = outbox /\ conn' = conn
  BY Handled
<1>2. Committed(u) = outbox[u]
  BY <1>1 DEF Committed, Occurs
<1>3. QED BY <1>1, <1>2 DEF Committed

(* After a send that does not end the server the others are left.          *)
LEMMA OthersLeft ==
  ASSUME TypeOK, SendingInv, SendStep, status' = status
  PROVE  /\ Running /\ Head(to) \in Fd
         /\ NextReceiver /\ NoRepeats(to')
         /\ Occurs(Head(to), to) /\ ~Occurs(Head(to), to')
         /\ \A u : u # Head(to) => (Occurs(u, to') <=> Occurs(u, to))
         /\ \A u : Occurs(u, to') => msg' = msg
         /\ Len(to') > 0 => Len(to) > 1 /\ msg' = msg
<1>1. Running /\ to # << >> /\ to \in Seq(Fd) /\ Len(to) \in Nat
  BY DEF SendStep, TypeOK
<1>2. NextReceiver
  BY <1>1 DEF SendStep, Send, SendAfterFin, SendFails, Exit, Running
<1>3. /\ Head(to) \in Fd /\ Len(Tail(to)) = Len(to) - 1
      /\ \A k \in 1 .. Len(Tail(to)) : Tail(to)[k] = to[k + 1]
  BY <1>1, HeadTailProperties
<1>4. Len(to) > 0 /\ Head(to) = to[1]
  BY <1>1, EmptySeq
<1>5. PICK l \in Nat : l = Len(to)
  BY <1>1
<1>6. PICK s : s = to'
  OBVIOUS
<1>7. Len(s) = l - 1 /\ \A k \in 1 .. l - 1 : s[k] = to[k + 1]
  BY <1>2, <1>3, <1>5, <1>6 DEF NextReceiver
<1>8. l > 0 /\ \A j, k \in 1 .. l : to[j] = to[k] => j = k
  BY <1>4, <1>5 DEF SendingInv, NoRepeats
<1>9. \A k \in 1 .. l - 1 : k + 1 \in 1 .. l /\ k + 1 # 1
  BY <1>5
<1>10. \A k \in 1 .. l : k = 1 \/ (k - 1 \in 1 .. l - 1 /\ (k - 1) + 1 = k)
  BY <1>5
<1>11. 1 \in 1 .. l
  BY <1>5, <1>8
<1>12. NoRepeats(s)
  <2>1. \A j, k \in 1 .. l - 1 : s[j] = s[k] => j + 1 = k + 1
    BY <1>7, <1>8, <1>9
  <2>2. \A j, k \in 1 .. l - 1 : j + 1 = k + 1 => j = k
    BY <1>5
  <2>3. QED BY <1>7, <2>1, <2>2 DEF NoRepeats
<1>13. ~ \E k \in 1 .. l - 1 : s[k] = to[1]
  BY <1>7, <1>8, <1>9, <1>11
<1>14. ASSUME NEW u, u # to[1]
       PROVE  (\E k \in 1 .. l - 1 : s[k] = u) <=> (\E k \in 1 .. l : to[k] = u)
  <2>1. ASSUME NEW k \in 1 .. l, to[k] = u PROVE k - 1 \in 1 .. l - 1 /\ s[k - 1] = u
    BY <1>7, <1>10, <1>14, <2>1
  <2>2. QED BY <1>7, <1>9, <2>1
<1>15. Len(s) > 0 => Len(to) > 1 /\ msg' = msg
  BY <1>2, <1>5, <1>7 DEF NextReceiver
<1>16. \A u : Occurs(u, s) => Len(s) > 0
  BY <1>5, <1>7 DEF Occurs
<1>17. Occurs(Head(to), to) /\ ~Occurs(Head(to), s)
  BY <1>4, <1>5, <1>7, <1>11, <1>13 DEF Occurs
<1>18. \A u : u # Head(to) => (Occurs(u, s) <=> Occurs(u, to))
  BY <1>4, <1>5, <1>7, <1>14 DEF Occurs
<1>19. QED
  BY <1>1, <1>2, <1>3, <1>6, <1>12, <1>15, <1>16, <1>17, <1>18

(* A send changes nobody's mail: what is sent was committed to.            *)
LEMMA MailOfSend ==
  ASSUME TypeOK, SendingInv, SendStep, status' = status, NEW u \in Fd
  PROVE  Committed(u)' = Committed(u)
<1> DEFINE fd == Head(to)
<1>1. /\ Occurs(fd, to) /\ ~Occurs(fd, to')
      /\ u # fd => (Occurs(u, to') <=> Occurs(u, to))
      /\ Occurs(u, to') => msg' = msg
      /\ fd \in Fd
  BY OthersLeft
<1>2. /\ conn \in [Fd -> {"free", "open", "fin", "rst"}]
      /\ outbox \in [Fd -> Seq(SentMessages)]
  BY DEF TypeOK
<1>3. Send(fd) \/ SendAfterFin(fd) \/ SendFails(fd)
  BY DEF SendStep
<1> HIDE DEF fd
<1>4. CASE Send(fd)
  <2>1. /\ conn[fd] = "open" /\ conn' = conn
        /\ outbox' = [outbox EXCEPT ![fd] = Append(@, msg)]
    BY <1>4 DEF Send
  <2>2. CASE u = fd
    BY <1>1, <1>2, <2>1, <2>2 DEF Committed
  <2>3. CASE u # fd
    BY <1>1, <1>2, <2>1, <2>3 DEF Committed
  <2>4. QED BY <2>2, <2>3
<1>5. CASE SendAfterFin(fd)
  <2>1. /\ conn[fd] = "fin" /\ conn'[fd] # "open" /\ outbox' = outbox
        /\ \A v \in Fd : v # fd => conn'[v] = conn[v]
    BY <1>1, <1>2, <1>5 DEF SendAfterFin
  <2>2. QED BY <1>1, <2>1 DEF Committed
<1>6. CASE SendFails(fd)
  <2>1. conn[fd] # "open" /\ conn' = conn /\ outbox' = outbox
    BY <1>6 DEF SendFails
  <2>2. QED BY <1>1, <2>1 DEF Committed
<1>7. QED BY <1>3, <1>4, <1>5, <1>6

(* A send that ends the server takes at most one chat message with it.     *)
LEMMA MailOfFailure ==
  ASSUME TypeOK, SendingInv, SendStep, status' # status
  PROVE  /\ Running /\ ~Running' /\ conn' = conn /\ to' = << >>
         /\ \A u \in Fd :
              \/ Committed(u)' = Committed(u)
              \/ /\ msg.type = "CHAT" /\ conn[u] = "open"
                 /\ Committed(u) = Append(Committed(u)', msg)
<1> DEFINE fd == Head(to)
<1>1. Running /\ to # << >> /\ to \in Seq(Fd) /\ Len(to) \in Nat
  BY DEF SendStep, TypeOK
<1>2. Len(to) > 0 /\ Head(to) = to[1]
  BY <1>1, EmptySeq
<1>3. SendFails(fd) /\ to' = << >> /\ ~Running'
  BY DEF SendStep, Send, SendAfterFin, SendFails, NextReceiver, Exit, Running
<1>4. conn' = conn /\ outbox' = outbox /\ conn[fd] # "open"
  BY <1>3 DEF SendFails
<1>5. ASSUME NEW u \in Fd
      PROVE  \/ Committed(u)' = Committed(u)
             \/ /\ msg.type = "CHAT" /\ conn[u] = "open"
                /\ Committed(u) = Append(Committed(u)', msg)
  <2>1. Committed(u)' = outbox[u]
    <3>1. Len(to') = 0
      BY <1>3
    <3>2. ~Occurs(u, to')
      BY <3>1 DEF Occurs
    <3>3. QED BY <1>4, <3>2 DEF Committed
  <2>2. CASE msg.type = "CHAT"
    BY <2>1, <2>2 DEF Committed
  <2>3. CASE msg.type # "CHAT"
    <3>1. msg.type = "REPLY"
      BY <1>2, <2>3 DEF TypeOK, SentMessages, ServerMessages
    <3>2. Len(to) = 1
      BY <1>2, <3>1 DEF SendingInv
    <3>3. Occurs(u, to) => u = fd
      BY <1>2, <3>2 DEF Occurs
    <3>4. QED BY <1>4, <2>1, <3>3 DEF Committed
  <2>4. QED BY <2>2, <2>3
<1>6. QED BY <1>1, <1>3, <1>4, <1>5

(* The steps that send nothing and disconnect nobody.                      *)
LEMMA MailOfQuiet ==
  ASSUME TypeOK, UsersAreConnections, NEW u \in Fd,
         \/ Poll \/ Skip \/ PollFails \/ AcceptFails \/ RecvFails \/ Connect
         \/ UNCHANGED vars
         \/ \E fd \in Fd : AcceptClient(fd) \/ ClientSend(fd) \/ ClientRead(fd)
  PROVE  Committed(u)' = Committed(u)
<1> USE DEF vars, process, kernel
<1>1. CASE UNCHANGED <<msg, to, conn, outbox>>
  BY <1>1 DEF Committed
<1>2. CASE PollFails \/ AcceptFails \/ RecvFails
  <2>1. to = << >> /\ to' = << >> /\ outbox' = outbox
    BY <1>2 DEF PollFails, AcceptFails, RecvFails, AtListener, ReadyAt, Scanning, Exit
  <2>2. Len(to) = 0 /\ Len(to') = 0
    BY <2>1
  <2>3. QED BY <2>1, <2>2 DEF Committed, Occurs
<1>3. ASSUME NEW fd \in Fd, AcceptClient(fd) PROVE Committed(u)' = Committed(u)
  <2>1. ~user_table_find(users, fd)
    BY <1>3 DEF AcceptClient, UsersAreConnections, user_table_find
  <2>2. to = << >> /\ to' = << >> /\ outbox' = outbox
    BY <1>3, <2>1 DEF AcceptClient, AtListener, ReadyAt, Scanning
  <2>3. Len(to) = 0 /\ Len(to') = 0
    BY <2>2
  <2>4. QED BY <2>2, <2>3 DEF Committed, Occurs
<1>4. QED
  BY <1>1, <1>2, <1>3 DEF Poll, Skip, Connect, ClientSend, ClientRead

(* A client that leaves takes its mail with it.                            *)
LEMMA MailOfClose ==
  ASSUME TypeOK, NEW fd \in Fd, ClientClose(fd)
  PROVE  /\ conn'[fd] \in {"fin", "rst"} /\ Len(Committed(fd)') = 0
         /\ Len(outbox'[fd]) = 0 /\ Committed(fd)' = << >>
         /\ \A u \in Fd : u # fd => conn'[u] = conn[u] /\ outbox'[u] = outbox[u]
                                    /\ Committed(u)' = Committed(u)
<1>1. /\ conn \in [Fd -> {"free", "open", "fin", "rst"}]
      /\ outbox \in [Fd -> Seq(SentMessages)]
  BY DEF TypeOK
<1>2. /\ conn'[fd] \in {"fin", "rst"} /\ outbox'[fd] = << >>
      /\ \A u \in Fd : u # fd => conn'[u] = conn[u] /\ outbox'[u] = outbox[u]
      /\ to' = to /\ msg' = msg
  BY <1>1 DEF ClientClose, process
<1>3. QED BY <1>2 DEF Committed

(* Clearing it up changes nobody else's.                                   *)
LEMMA MailOfTermination ==
  ASSUME TypeOK, NEW fd, Scanning, handle_client_termination(fd)
  PROVE  /\ to = << >> /\ to' = << >>
         /\ \A u \in Fd :
              \/ Committed(u)' = Committed(u) /\ outbox'[u] = outbox[u] /\ conn'[u] = conn[u]
              \/ /\ u = fd /\ conn'[u] = "free"
                 /\ Len(Committed(u)') = 0 /\ Len(outbox'[u]) = 0
<1>1. to = << >> /\ to' = << >> /\ Len(to) = 0 /\ Len(to') = 0
  BY DEF Scanning, handle_client_termination, Exit
<1>2. \A u : Committed(u) = outbox[u] /\ Committed(u)' = outbox'[u]
  BY <1>1 DEF Committed, Occurs
<1>3. /\ conn \in [Fd -> {"free", "open", "fin", "rst"}]
      /\ outbox \in [Fd -> Seq(SentMessages)]
  BY DEF TypeOK
<1>4. CASE user_table_find(users, fd)
  BY <1>1, <1>2, <1>3, <1>4 DEF handle_client_termination
<1>5. CASE ~user_table_find(users, fd)
  BY <1>1, <1>2, <1>5 DEF handle_client_termination, kernel
<1>6. QED BY <1>4, <1>5

(* In one: a step leaves a client's mail alone, forgets it with the client, *)
(* or drops the chat message that was being sent; only handling a message  *)
(* adds to it.                                                             *)
MailCut ==
  \A u \in Fd :
    \/ Committed(u)' = Committed(u)
    \/ Len(Committed(u)') = 0 /\ conn'[u] # "open"
    \/ msg.type = "CHAT" /\ Committed(u) = Append(Committed(u)', msg)

LEMMA MailStep ==
  ASSUME TypeOK, UsersAreConnections, SendingInv, [Next]_vars
  PROVE  MailCut \/ \E fd \in Fd : HandleMessage(fd)
<1>1. CASE \/ Poll \/ Skip \/ PollFails \/ AcceptFails \/ RecvFails \/ Connect
           \/ UNCHANGED vars
           \/ \E fd \in Fd : AcceptClient(fd) \/ ClientSend(fd) \/ ClientRead(fd)
  BY <1>1, MailOfQuiet DEF MailCut
<1>2. CASE SendStep
  BY <1>2, MailOfSend, MailOfFailure DEF MailCut
<1>3. ASSUME NEW fd \in Fd, ClientClose(fd) PROVE MailCut
  BY <1>3, MailOfClose DEF MailCut
<1>4. ASSUME NEW fd, Scanning, handle_client_termination(fd) PROVE MailCut
  <2>1. "free" # "open"
    OBVIOUS
  <2>2. QED BY <1>4, <2>1, MailOfTermination DEF MailCut
<1>5. QED
  BY <1>1, <1>2, <1>3, <1>4
  DEF Next, ServerNext, ServerRuns, ClientNext, HandleHangUp, HandleEof, AtClient, ReadyAt

LEMMA SendingStep ==
  ASSUME TypeOK, UsersAreConnections, RoomConsistency, SendingInv, [Next]_vars
  PROVE  SendingInv'
<1> DEFINE Forgotten == \A fd \in Fd : conn[fd] # "open" => Len(outbox[fd]) = 0
<1>0. Forgotten /\ conn \in [Fd -> {"free", "open", "fin", "rst"}]
      /\ outbox \in [Fd -> Seq(SentMessages)]
  BY DEF SendingInv, TypeOK
<1>1. Len(to') = 0 => NoRepeats(to')
  BY DEF NoRepeats
<1>2. CASE UNCHANGED <<to, msg, conn, outbox>>
  BY <1>2 DEF SendingInv
<1>3. ASSUME NEW fd, Scanning, handle_client_termination(fd) PROVE SendingInv'
  <2>1. Len(to') = 0
    BY <1>3, MailOfTermination
  <2>2. Forgotten'
    BY <1>0, <1>3, MailOfTermination
  <2>3. QED BY <1>1, <2>1, <2>2 DEF SendingInv
<1>4. CASE PollFails \/ AcceptFails \/ RecvFails
  <2>1. Len(to') = 0 /\ conn' = conn /\ outbox' = outbox
    BY <1>4 DEF PollFails, AcceptFails, RecvFails, Exit, kernel
  <2>2. QED BY <1>0, <1>1, <2>1 DEF SendingInv
<1>5. ASSUME NEW fd \in Fd, AcceptClient(fd) PROVE SendingInv'
  <2>1. ~user_table_find(users, fd)
    BY <1>5 DEF AcceptClient, UsersAreConnections, user_table_find
  <2>2. /\ to' = to /\ msg' = msg /\ outbox' = outbox
        /\ \A u \in Fd : u # fd => conn'[u] = conn[u]
        /\ conn'[fd] = "open"
    BY <1>0, <1>5, <2>1 DEF AcceptClient
  <2>3. QED BY <1>0, <2>2 DEF SendingInv
<1>6. ASSUME NEW fd \in Fd, HandleMessage(fd) PROVE SendingInv'
  BY <1>0, <1>6, Receivers, Handled DEF SendingInv
<1>7. ASSUME NEW fd \in Fd, ClientClose(fd) PROVE SendingInv'
  <2>1. to' = to /\ msg' = msg
    BY <1>7 DEF ClientClose, process
  <2>2. Forgotten'
    BY <1>0, <1>7, MailOfClose
  <2>3. QED BY <2>1, <2>2 DEF SendingInv
<1>8. CASE SendStep /\ status' = status
  <2>1. NoRepeats(to') /\ (Len(to') > 0 => Len(to) > 1 /\ msg' = msg)
    BY <1>8, OthersLeft
  <2>2. Len(to') > 0 => msg'.type # "REPLY"
    BY <2>1 DEF SendingInv
  <2>3. Forgotten'
    <3>1. Head(to) \in Fd
      BY <1>8, OthersLeft
    <3>2. CASE Send(Head(to))
      BY <1>0, <3>1, <3>2 DEF Send
    <3>3. CASE SendAfterFin(Head(to))
      BY <1>0, <3>1, <3>3 DEF SendAfterFin
    <3>4. CASE SendFails(Head(to))
      BY <1>0, <3>4 DEF SendFails
    <3>5. QED BY <1>8, <3>2, <3>3, <3>4 DEF SendStep
  <2>4. QED BY <2>1, <2>2, <2>3 DEF SendingInv
<1>9. CASE SendStep /\ status' # status
  <2>1. Len(to') = 0 /\ conn' = conn
    BY <1>9, MailOfFailure
  <2>2. outbox' = outbox
    BY <1>9 DEF SendStep, Send, SendAfterFin, SendFails, NextReceiver
  <2>3. QED BY <1>0, <1>1, <2>1, <2>2 DEF SendingInv
<1>10. QED
  BY <1>2, <1>3, <1>4, <1>5, <1>6, <1>7, <1>8, <1>9
  DEF Next, ServerNext, ServerRuns, ClientNext, HandleHangUp, HandleEof, AtClient, ReadyAt,
      Poll, Skip, Connect, ClientSend, ClientRead, vars, process, kernel

-----------------------------------------------------------------------------
(***************************************************************************)
(* The order of chat messages.  It needs to be known of the messages that  *)
(* wait that they are yet to come: each client's in the order of their     *)
(* numbers, no number waiting twice, and none of them handled before.      *)
(***************************************************************************)
WaitingInv ==
  /\ \A g \in Fd : Rising(inbox[g])
  /\ \A g, h \in Fd : g # h => Apart(inbox[g], inbox[h])
  /\ \A f, g \in Fd : Before(Committed(f), inbox[g], g)

OrderInv ==
  /\ \A f \in Fd : Fifo(Committed(f))
  /\ \A f, g \in Fd : Agree(Committed(f), Committed(g))

LEMMA OrderInit == Init => WaitingInv /\ OrderInv
<1> SUFFICES ASSUME Init PROVE WaitingInv /\ OrderInv
  OBVIOUS
<1>1. \A f \in Fd : Committed(f) = << >> /\ inbox[f] = << >>
  BY DEF Init, Committed
<1>2. Chats(<< >>) = {}
  BY DEF Chats
<1>3. QED
  BY <1>1, <1>2 DEF WaitingInv, OrderInv, Rising, Apart, Before, Fifo, Agree

(* Whatever waits and was sent has the number of a message that was made.  *)
LEMMA Numbers ==
  ASSUME TypeOK, NEW f \in Fd
  PROVE  /\ inbox[f] \in Seq(Requests(1 .. nsent, RoomRequests, NewNames))
         /\ \A k \in Chats(inbox[f]) : inbox[f][k].id \in 1 .. nsent
         /\ \A k \in Chats(Committed(f)) : Committed(f)[k].id \in 1 .. nsent
<1>1. inbox[f] \in Seq(Requests(1 .. nsent, RoomRequests, NewNames))
  BY DEF TypeOK
<1>2. ASSUME NEW k \in Chats(inbox[f]) PROVE inbox[f][k].id \in 1 .. nsent
  <2>1. inbox[f][k] \in Requests(1 .. nsent, RoomRequests, NewNames)
        /\ inbox[f][k].type = "CHAT"
    BY <1>1 DEF Chats
  <2>2. QED BY <2>1, RequestFields
<1>3. ASSUME NEW k \in Chats(Committed(f)) PROVE Committed(f)[k].id \in 1 .. nsent
  <2>1. Committed(f)[k] \in SentMessages /\ Committed(f)[k].type = "CHAT"
    BY CommittedType DEF Chats
  <2>2. QED BY <2>1 DEF SentMessages, ServerMessages
<1>4. QED BY <1>1, <1>2, <1>3

(* What a step that only cuts mail and input leaves is part of what was.   *)
LEMMA CutIsStretch ==
  ASSUME TypeOK, TypeOK', MailCut, NEW u \in Fd
  PROVE  \E S : /\ Committed(u) \in Seq(S) /\ Committed(u)' \in Seq(S)
                /\ Stretch(Committed(u)', Committed(u))
<1>1. PICK s : s = Committed(u)
  OBVIOUS
<1>2. PICK p : p = Committed(u)'
  OBVIOUS
<1>3. PICK S : S = SentMessages \cup SentMessages'
  OBVIOUS
<1>4. s \in Seq(SentMessages)
  BY <1>1, CommittedType
<1>5. p \in Seq(SentMessages')
  BY <1>2, CommittedTypeNext
<1>6. s \in Seq(S) /\ p \in Seq(S)
  BY <1>3, <1>4, <1>5, SeqMonotonic
<1>7. p = s => Stretch(p, s)
  BY <1>6, SameIsStretch
<1>8. Len(p) = 0 => Stretch(p, s)
  BY DEF Stretch
<1>9. s = Append(p, msg) => Stretch(p, s)
  BY <1>6, FrontIsStretch
<1>10. Stretch(p, s)
  BY <1>1, <1>2, <1>7, <1>8, <1>9 DEF MailCut
<1>11. QED BY <1>1, <1>2, <1>6, <1>10

LEMMA OrderAfterCut ==
  ASSUME TypeOK, TypeOK', MailCut, WaitingInv, OrderInv,
         \A g \in Fd : inbox'[g] = inbox[g] \/ inbox'[g] = << >>
  PROVE  WaitingInv' /\ OrderInv'
<1>1. Chats(<< >>) = {}
  BY DEF Chats
<1>2. ASSUME NEW f \in Fd, NEW t
      PROVE  /\ Fifo(Committed(f)')
             /\ Agree(Committed(f), t) => Agree(Committed(f)', t)
             /\ Agree(t, Committed(f)) => Agree(t, Committed(f)')
             /\ \A g : Before(Committed(f), t, g) => Before(Committed(f)', t, g)
  <2>1. PICK S : /\ Committed(f) \in Seq(S) /\ Committed(f)' \in Seq(S)
                 /\ Stretch(Committed(f)', Committed(f))
    BY CutIsStretch
  <2>2. Fifo(Committed(f))
    BY DEF OrderInv
  <2>3. PICK s : s = Committed(f)
    OBVIOUS
  <2>4. PICK p : p = Committed(f)'
    OBVIOUS
  <2>5. QED BY <2>1, <2>2, <2>3, <2>4, StretchKeeps
<1>3. ASSUME NEW f \in Fd, NEW g \in Fd
      PROVE  Agree(Committed(f)', Committed(g)') /\ Before(Committed(f)', inbox'[g], g)
  <2>1. Agree(Committed(f), Committed(g)) /\ Before(Committed(f), inbox[g], g)
    BY DEF OrderInv, WaitingInv
  <2>2. Agree(Committed(f)', Committed(g)) /\ Before(Committed(f)', inbox[g], g)
    BY <1>2, <2>1
  <2>3. Agree(Committed(f)', Committed(g)')
    BY <1>2, <2>2
  <2>4. Before(Committed(f)', inbox'[g], g)
    BY <1>1, <2>2 DEF Before
  <2>5. QED BY <2>3, <2>4
<1>4. \A g \in Fd : Rising(inbox'[g])
  BY <1>1 DEF WaitingInv, Rising
<1>5. \A g, h \in Fd : g # h => Apart(inbox'[g], inbox'[h])
  BY <1>1 DEF WaitingInv, Apart
<1>6. QED BY <1>2, <1>3, <1>4, <1>5 DEF WaitingInv, OrderInv

(* A new message has a number greater than all there are.                  *)
LEMMA OrderAfterSend ==
  ASSUME TypeOK, UsersAreConnections, WaitingInv, OrderInv, NEW fd \in Fd, ClientSend(fd)
  PROVE  WaitingInv' /\ OrderInv'
<1>1. \A f \in Fd : Committed(f)' = Committed(f)
  BY MailOfQuiet
<1>2. PICK m \in Requests({nsent + 1}, RoomRequests, NewNames) :
        inbox' = [inbox EXCEPT ![fd] = Append(@, m)]
  BY DEF ClientSend
<1>3. inbox'[fd] = Append(inbox[fd], m) /\ \A g \in Fd : g # fd => inbox'[g] = inbox[g]
  BY <1>2 DEF TypeOK
<1>4. m.type = "CHAT" => m.id = nsent + 1
  BY <1>2, RequestFields
<1>5. nsent \in Nat /\ \A k \in 1 .. nsent : k < nsent + 1
  BY DEF TypeOK
<1>6. /\ \A g \in Fd : \A k \in Chats(inbox[g]) : inbox[g][k].id < nsent + 1
                                                  /\ inbox[g][k].id # nsent + 1
      /\ \A f \in Fd : \A k \in Chats(Committed(f)) : Committed(f)[k].id < nsent + 1
                                                      /\ Committed(f)[k].id # nsent + 1
  <2>1. \A k \in 1 .. nsent : k < nsent + 1 /\ k # nsent + 1
    BY <1>5
  <2>2. QED BY <2>1, Numbers
<1>7. Longer(inbox'[fd], inbox[fd], m)
  BY <1>3, Numbers, AppendIsLonger
<1>8. Rising(inbox'[fd])
  BY <1>4, <1>6, <1>7, LongerRising DEF WaitingInv
<1>9. ASSUME NEW g \in Fd, g # fd
      PROVE  Apart(inbox'[fd], inbox[g]) /\ Apart(inbox[g], inbox'[fd])
  BY <1>4, <1>6, <1>7, <1>9, LongerApart DEF WaitingInv
<1>10. ASSUME NEW f \in Fd PROVE Before(Committed(f), inbox'[fd], fd)
  <2>1. PICK s : s = Committed(f)
    OBVIOUS
  <2>2. Before(s, inbox[fd], fd) /\ \A k \in Chats(s) : s[k].id < nsent + 1 /\ s[k].id # nsent + 1
    BY <1>6, <2>1 DEF WaitingInv
  <2>3. QED BY <1>4, <1>7, <2>1, <2>2, BeforeLonger
<1>11. WaitingInv'
  <2>1. \A g \in Fd : Rising(inbox'[g])
    BY <1>3, <1>8 DEF WaitingInv
  <2>2. \A g, h \in Fd : g # h => Apart(inbox'[g], inbox'[h])
    BY <1>3, <1>9 DEF WaitingInv
  <2>3. \A f, g \in Fd : Before(Committed(f)', inbox'[g], g)
    BY <1>1, <1>3, <1>10 DEF WaitingInv
  <2>4. QED BY <2>1, <2>2, <2>3 DEF WaitingInv
<1>12. OrderInv'
  BY <1>1 DEF OrderInv
<1>13. QED BY <1>11, <1>12

(* The oldest message of a client is handled: it is later than everything  *)
(* handled of this client, and its number has not been handed out.         *)
LEMMA OrderAfterHandling ==
  ASSUME TypeOK, UsersAreConnections, RoomConsistency, WaitingInv, OrderInv,
         NEW fd \in Fd, HandleMessage(fd)
  PROVE  WaitingInv' /\ OrderInv'
<1>0. PICK S : S = Requests(1 .. nsent, RoomRequests, NewNames)
  OBVIOUS
<1>1. /\ Len(inbox[fd]) > 0 /\ inbox[fd] \in Seq(S) /\ inbox[fd] # << >>
      /\ inbox' = [inbox EXCEPT ![fd] = Tail(@)]
  BY <1>0, Handled, Numbers, EmptySeq
<1>2. inbox'[fd] = Tail(inbox[fd]) /\ \A g \in Fd : g # fd => inbox'[g] = inbox[g]
  BY <1>1 DEF TypeOK
<1>3. Stretch(inbox'[fd], inbox[fd]) /\ inbox'[fd] \in Seq(S)
  <2>1. Stretch(Tail(inbox[fd]), inbox[fd])
    BY <1>1, TailIsStretch
  <2>2. Tail(inbox[fd]) \in Seq(S)
    BY <1>1, HeadTailProperties
  <2>3. QED BY <1>2, <2>1, <2>2
<1>4. msg'.type = "CHAT" =>
        /\ msg'.id = Head(inbox[fd]).id /\ msg'.from = fd
        /\ Head(inbox[fd]).type = "CHAT"
  BY HandledSends DEF ChatSent, ReplySent, ChatMessage, Received
<1>5. msg'.type = "CHAT" => 1 \in Chats(inbox[fd]) /\ inbox[fd][1].id = msg'.id
  BY <1>1, <1>4, ChatsOfHead
<1>6. ASSUME NEW f \in Fd, msg'.type = "CHAT", NEW j \in Chats(Committed(f))
      PROVE  /\ Committed(f)[j].id # msg'.id
             /\ Committed(f)[j].from = msg'.from => Committed(f)[j].id < msg'.id
  <2>1. Before(Committed(f), inbox[fd], fd)
    BY DEF WaitingInv
  <2>2. QED BY <1>4, <1>5, <1>6, <2>1 DEF Before
<1>7. ASSUME NEW f \in Fd PROVE Longer(Committed(f)', Committed(f), msg')
  <2>1. PICK s : s = Committed(f)
    OBVIOUS
  <2>2. Committed(f)' = s \/ Committed(f)' = Append(s, msg')
    BY <2>1, MailOfHandled
  <2>3. s \in Seq(SentMessages)
    BY <2>1, CommittedType
  <2>4. QED BY <2>1, <2>2, <2>3, AppendIsLonger
<1>8. ASSUME NEW f \in Fd PROVE Fifo(Committed(f)')
  <2>1. PICK s : s = Committed(f)
    OBVIOUS
  <2>2. PICK p : p = Committed(f)'
    OBVIOUS
  <2>3. Fifo(s) /\ Longer(p, s, msg')
    BY <1>7, <2>1, <2>2 DEF OrderInv
  <2>4. msg'.type = "CHAT" => \A j \in Chats(s) : s[j].from = msg'.from => s[j].id < msg'.id
    BY <1>6, <2>1
  <2>5. QED BY <2>2, <2>3, <2>4, LongerFifo
<1>9. ASSUME NEW f \in Fd, NEW g \in Fd PROVE Agree(Committed(f)', Committed(g)')
  <2>1. PICK s, t : s = Committed(f) /\ t = Committed(g)
    OBVIOUS
  <2>2. PICK p, q : p = Committed(f)' /\ q = Committed(g)'
    OBVIOUS
  <2>3. Agree(s, t) /\ Longer(p, s, msg') /\ Longer(q, t, msg')
    BY <1>7, <2>1, <2>2 DEF OrderInv
  <2>4. /\ msg'.type = "CHAT" => \A j \in Chats(s) : s[j].id # msg'.id
        /\ msg'.type = "CHAT" => \A j \in Chats(t) : t[j].id # msg'.id
    BY <1>6, <2>1
  <2>5. QED BY <2>2, <2>3, <2>4, LongerAgree
<1>10. ASSUME NEW g \in Fd, msg'.type = "CHAT", NEW k \in Chats(inbox'[g])
       PROVE  msg'.id # inbox'[g][k].id /\ (msg'.from = g => msg'.id < inbox'[g][k].id)
  <2>1. CASE g = fd
    <3>1. msg'.id < inbox'[g][k].id
      BY <1>1, <1>2, <1>4, <1>10, <2>1, ChatsOfHead DEF WaitingInv
    <3>2. inbox'[fd][k].id \in Nat /\ msg'.id \in Nat
      <4>1. inbox'[fd][k] \in S
        BY <1>3, <1>10, <2>1 DEF Chats
      <4>2. inbox'[fd][k].id \in 1 .. nsent
        BY <1>0, <1>10, <2>1, <4>1, RequestFields DEF Chats
      <4>3. msg'.id \in 1 .. nsent
        BY <1>5, <1>10, Numbers
      <4>4. QED BY <4>2, <4>3
    <3>3. QED BY <2>1, <3>1, <3>2
  <2>2. CASE g # fd
    <3>1. Apart(inbox[fd], inbox[g]) /\ k \in Chats(inbox[g]) /\ inbox'[g] = inbox[g]
      BY <1>2, <2>2 DEF WaitingInv
    <3>2. QED BY <1>4, <1>5, <1>10, <2>2, <3>1 DEF Apart
  <2>3. QED BY <2>1, <2>2
<1>11. ASSUME NEW f \in Fd, NEW g \in Fd PROVE Before(Committed(f)', inbox'[g], g)
  <2>1. PICK s, p, t : s = Committed(f) /\ p = Committed(f)' /\ t = inbox'[g]
    OBVIOUS
  <2>2. Before(s, inbox[g], g)
    BY <2>1 DEF WaitingInv
  <2>3. Before(s, t, g)
    <3>1. CASE g = fd
      <4>1. PICK r : r = inbox[g]
        OBVIOUS
      <4>2. Stretch(t, r) /\ r \in Seq(S) /\ t \in Seq(S) /\ Before(s, r, g)
        BY <1>1, <1>3, <2>1, <2>2, <3>1, <4>1
      <4>3. QED BY <4>2, StretchKeeps
    <3>2. CASE g # fd
      BY <1>2, <2>1, <2>2, <3>2
    <3>3. QED BY <3>1, <3>2
  <2>4. Longer(p, s, msg')
    BY <1>7, <2>1
  <2>5. msg'.type = "CHAT" =>
          \A k \in Chats(t) : msg'.id # t[k].id /\ (msg'.from = g => msg'.id < t[k].id)
    BY <1>10, <2>1
  <2>6. Before(p, t, g)
    BY <2>3, <2>4, <2>5, LongerBefore
  <2>7. QED BY <2>1, <2>6
<1>12. \A g \in Fd : Rising(inbox'[g])
  BY <1>1, <1>2, <1>3, StretchKeeps DEF WaitingInv
<1>13. \A g, h \in Fd : g # h => Apart(inbox'[g], inbox'[h])
  BY <1>1, <1>2, <1>3, StretchKeeps DEF WaitingInv
<1>14. QED BY <1>8, <1>9, <1>11, <1>12, <1>13 DEF WaitingInv, OrderInv

(* Input is only cut, unless a message is made or handled.                 *)
LEMMA InputStep ==
  ASSUME TypeOK, [Next]_vars
  PROVE  \/ \A g \in Fd : inbox'[g] = inbox[g] \/ inbox'[g] = << >>
         \/ \E fd \in Fd : ClientSend(fd) \/ HandleMessage(fd)
<1>1. inbox \in [Fd -> Seq(Requests(1 .. nsent, RoomRequests, NewNames))]
  BY DEF TypeOK
<1>2. ASSUME NEW fd, handle_client_termination(fd)
      PROVE  \A g \in Fd : inbox'[g] = inbox[g] \/ inbox'[g] = << >>
  BY <1>1, <1>2 DEF handle_client_termination, kernel
<1>3. \/ UNCHANGED inbox
      \/ \E fd \in Fd : ClientSend(fd) \/ HandleMessage(fd)
      \/ \E fd : handle_client_termination(fd)
  BY DEF Next, ServerNext, ServerRuns, ClientNext, Poll, PollFails, Skip, AcceptClient,
     AcceptFails, HandleHangUp, HandleEof, RecvFails, SendStep, Connect, ClientRead,
     ClientClose, vars, kernel
<1>4. QED BY <1>2, <1>3

LEMMA OrderStep ==
  ASSUME TypeOK, TypeOK', UsersAreConnections, RoomConsistency, SendingInv,
         WaitingInv, OrderInv, [Next]_vars
  PROVE  WaitingInv' /\ OrderInv'
<1>1. ASSUME NEW fd \in Fd, ClientSend(fd) PROVE WaitingInv' /\ OrderInv'
  BY <1>1, OrderAfterSend
<1>2. ASSUME NEW fd \in Fd, HandleMessage(fd) PROVE WaitingInv' /\ OrderInv'
  BY <1>2, OrderAfterHandling
<1>3. ASSUME ~ \E fd \in Fd : ClientSend(fd) \/ HandleMessage(fd)
      PROVE  WaitingInv' /\ OrderInv'
  <2>1. MailCut
    BY <1>3, MailStep
  <2>2. \A g \in Fd : inbox'[g] = inbox[g] \/ inbox'[g] = << >>
    BY <1>3, InputStep
  <2>3. QED BY <2>1, <2>2, OrderAfterCut
<1>4. QED BY <1>1, <1>2, <1>3

LEMMA SendingCorrect == Spec => []SendingInv
BY SendingInit, SendingStep, TypeCorrect, UsersMatchConnections, RoomsConsistent, PTL DEF Spec

LEMMA OrderCorrect == Spec => [](WaitingInv /\ OrderInv)
BY OrderInit, OrderStep, TypeCorrect, UsersMatchConnections, RoomsConsistent, SendingCorrect, PTL
DEF Spec

(* A receiver gets a sender's chat messages in the order they were sent,   *)
(* whatever the sender and the receiver joined, renamed or left in between, *)
(* also when a resize moved the poll array.                                *)
THEOREM SendersInOrder == Spec => []SenderFifo
<1>1. TypeOK /\ OrderInv => SenderFifo
  BY PropertiesOfMail DEF OrderInv
<1>2. QED BY <1>1, OrderCorrect, TypeCorrect, PTL

(* Any two clients get the chat messages they both get in the same order,  *)
(* and nobody gets one twice: sends of two handlers never interleave.      *)
THEOREM OneOrder == Spec => []SameOrder
<1>1. TypeOK /\ OrderInv => SameOrder
  BY PropertiesOfMail DEF OrderInv
<1>2. QED BY <1>1, OrderCorrect, TypeCorrect, PTL

-----------------------------------------------------------------------------
(***************************************************************************)
(* The rooms.  That a chat message is of the room its receiver was told it *)
(* is in follows from the receivers' entries in the user table being what  *)
(* they were told, so the two are proved together.                         *)
(***************************************************************************)
RoomInv ==
  /\ \A f \in Fd : Isolated(Committed(f))
  /\ \A f \in DOMAIN users :
       conn[f] = "open" => users[f].room = RoomHeard(Committed(f), Len(Committed(f)))

LEMMA RoomInit == Init => RoomInv
<1> SUFFICES ASSUME Init PROVE RoomInv
  OBVIOUS
<1>1. \A f \in Fd : Committed(f) = << >>
  BY DEF Init, Committed
<1>2. DOMAIN users = {}
  BY DEF Init
<1>3. Isolated(<< >>)
  BY DEF Isolated, Chats
<1>4. QED BY <1>1, <1>2, <1>3 DEF RoomInv

(* Nothing told and nothing isolated gets lost with a message of the end.  *)
LEMMA RoomsAfterCut ==
  ASSUME TypeOK, TypeOK', UsersAreConnections, MailCut, RoomInv,
         NEW f \in Fd
  PROVE  /\ Isolated(Committed(f)')
         /\ conn'[f] = "open" => RoomHeard(Committed(f)', Len(Committed(f)'))
                                   = RoomHeard(Committed(f), Len(Committed(f)))
<1>1. PICK s, p : s = Committed(f) /\ p = Committed(f)'
  OBVIOUS
<1>2. p \in Seq(SentMessages')
  BY <1>1, CommittedTypeNext
<1>3. Isolated(s)
  BY <1>1 DEF RoomInv
<1>4. CASE Len(p) = 0 /\ conn'[f] # "open"
  <2>1. Isolated(p)
    BY <1>2, <1>4 DEF Isolated, Chats
  <2>2. QED BY <1>1, <1>4, <2>1
<1>5. CASE msg.type = "CHAT" /\ s = Append(p, msg)
  <2>1. Isolated(p)
    BY <1>2, <1>3, <1>5, IsolatedFront
  <2>2. ~TellsRoom(msg)
    BY <1>5 DEF TellsRoom
  <2>3. RoomHeard(s, Len(s)) = RoomHeard(p, Len(p))
    BY <1>2, <1>5, <2>2, RoomHeardAppend
  <2>4. QED BY <1>1, <2>1, <2>3
<1>6. CASE p = s
  BY <1>1, <1>3, <1>6
<1>7. QED BY <1>1, <1>4, <1>5, <1>6 DEF MailCut

(* Handling messages aside, a connected client is in the room it was in,   *)
(* or has just come and is in none.                                        *)
LEMMA StaysInRoom ==
  ASSUME TypeOK, UsersAreConnections, [Next]_vars,
         ~ \E fd \in Fd : HandleMessage(fd),
         NEW f \in DOMAIN users', conn'[f] = "open"
  PROVE  \/ f \in DOMAIN users /\ conn[f] = "open" /\ users'[f].room = users[f].room
         \/ f \in Fd /\ AcceptClient(f) /\ users'[f].room = InvalidRoom
<1>0. DOMAIN users \subseteq Fd /\ conn \in [Fd -> {"free", "open", "fin", "rst"}]
  BY DEF TypeOK
<1>1. CASE UNCHANGED <<users, conn>>
  BY <1>1
<1>2. ASSUME NEW fd \in Fd, AcceptClient(fd)
      PROVE  \/ f \in DOMAIN users /\ conn[f] = "open" /\ users'[f].room = users[f].room
             \/ f \in Fd /\ AcceptClient(f) /\ users'[f].room = InvalidRoom
  <2>1. fd \notin DOMAIN users /\ conn' = [conn EXCEPT ![fd] = "open"]
    BY <1>2 DEF AcceptClient, UsersAreConnections
  <2>2. users' = user_table_add(users, fd)
    BY <1>2, <2>1 DEF AcceptClient, user_table_find
  <2>3. /\ DOMAIN users' = DOMAIN users \cup {fd}
        /\ \A u \in DOMAIN users : users'[u] = users[u]
        /\ users'[fd].room = InvalidRoom
    BY <2>1, <2>2 DEF user_table_add, NewUser
  <2>4. CASE f = fd
    BY <1>2, <2>3, <2>4
  <2>5. CASE f # fd
    BY <1>0, <2>1, <2>3, <2>5
  <2>6. QED BY <2>4, <2>5
<1>3. ASSUME NEW fd, handle_client_termination(fd)
      PROVE  f \in DOMAIN users /\ conn[f] = "open" /\ users'[f].room = users[f].room
  <2>1. CASE user_table_find(users, fd)
    <3>1. users' = user_table_delete(users, fd) /\ conn' = [conn EXCEPT ![fd] = "free"]
      BY <1>3, <2>1 DEF handle_client_termination
    <3>2. f \in DOMAIN users \ {fd} /\ users'[f] = users[f]
      BY <3>1 DEF user_table_delete
    <3>3. QED BY <1>0, <3>1, <3>2
  <2>2. CASE ~user_table_find(users, fd)
    BY <1>3, <2>2 DEF handle_client_termination, kernel
  <2>3. QED BY <2>1, <2>2
<1>4. ASSUME NEW fd \in Fd, ClientClose(fd)
      PROVE  f \in DOMAIN users /\ conn[f] = "open" /\ users'[f].room = users[f].room
  BY <1>0, <1>4, MailOfClose DEF ClientClose, process
<1>5. CASE SendStep
  <2>1. users' = users
    BY <1>5 DEF SendStep
  <2>2. conn[f] = "open"
    BY <1>0, <1>5, <2>1 DEF SendStep, Send, SendAfterFin, SendFails
  <2>3. QED BY <2>1, <2>2
<1>6. \/ UNCHANGED <<users, conn>> \/ SendStep
      \/ \E fd \in Fd : AcceptClient(fd) \/ ClientClose(fd)
      \/ \E fd : handle_client_termination(fd)
  BY DEF Next, ServerNext, ServerRuns, ClientNext, Poll, PollFails, Skip, AcceptFails,
     RecvFails, HandleHangUp, HandleEof, Connect, ClientSend, ClientRead, vars, process, kernel
<1>7. QED BY <1>1, <1>2, <1>3, <1>4, <1>5, <1>6

LEMMA RoomsAfterHandling ==
  ASSUME TypeOK, UsersAreConnections, RoomConsistency, RoomInv,
         NEW fd \in Fd, HandleMessage(fd)
  PROVE  RoomInv'
<1>1. /\ conn' = conn /\ fd \in DOMAIN users /\ DOMAIN users \subseteq Fd
      /\ DOMAIN users' = DOMAIN users
  BY Handled, HandledKeepsUsers DEF TypeOK
<1>2. ASSUME NEW f \in Fd
      PROVE  /\ Isolated(Committed(f)')
             /\ f \in DOMAIN users /\ conn[f] = "open" =>
                  users'[f].room = RoomHeard(Committed(f)', Len(Committed(f)'))
  <2>1. PICK s, p, m : s = Committed(f) /\ p = Committed(f)' /\ m = msg'
    OBVIOUS
  <2>2. s \in Seq(SentMessages) /\ Isolated(s)
    BY <2>1, CommittedType DEF RoomInv
  <2>3. p = IF conn[f] = "open" /\ Occurs(f, to') THEN Append(s, m) ELSE s
    BY <2>1, MailOfHandled
  <2>4. f \in DOMAIN users /\ conn[f] = "open" => users[f].room = RoomHeard(s, Len(s))
    BY <2>1 DEF RoomInv
  <2>5. CASE ChatSent(fd)
    <3>1. /\ m.type = "CHAT" /\ m.room = users[fd].room /\ users' = users
          /\ Occurs(f, to') => f \in DOMAIN users /\ users[f].room = users[fd].room
          /\ ~TellsRoom(m)
      BY <2>1, <2>5, Receivers DEF ChatSent, ChatMessage, TellsRoom
    <3>2. CASE conn[f] = "open" /\ Occurs(f, to')
      <4>1. p = Append(s, m) /\ m.room = RoomHeard(s, Len(s))
        BY <2>3, <2>4, <3>1, <3>2
      <4>2. Isolated(p) /\ RoomHeard(p, Len(p)) = RoomHeard(s, Len(s))
        BY <2>2, <3>1, <4>1, RoomHeardAppend
      <4>3. QED BY <2>1, <2>4, <3>1, <4>2
    <3>3. CASE ~(conn[f] = "open" /\ Occurs(f, to'))
      BY <2>1, <2>2, <2>3, <2>4, <3>1, <3>3
    <3>4. QED BY <3>2, <3>3
  <2>6. CASE ReplySent(fd)
    <3>1. /\ m.type = "REPLY" /\ (Occurs(f, to') <=> f = fd)
          /\ f \in DOMAIN users =>
               users'[f].room = IF f = fd /\ TellsRoom(m) THEN Told(m) ELSE users[f].room
      BY <2>1, <2>6, Receivers DEF ReplySent
    <3>2. CASE conn[f] = "open" /\ f = fd
      <4>1. p = Append(s, m)
        BY <2>3, <3>1, <3>2
      <4>2. Isolated(p) /\ RoomHeard(p, Len(p)) =
                             IF TellsRoom(m) THEN Told(m) ELSE RoomHeard(s, Len(s))
        BY <2>2, <3>1, <4>1, RoomHeardAppend
      <4>3. QED BY <2>1, <2>4, <3>1, <3>2, <4>2
    <3>3. CASE ~(conn[f] = "open" /\ f = fd)
      BY <2>1, <2>2, <2>3, <2>4, <3>1, <3>3
    <3>4. QED BY <3>2, <3>3
  <2>7. QED BY <2>5, <2>6, HandledSends
<1>3. QED BY <1>1, <1>2 DEF RoomInv

LEMMA RoomStep ==
  ASSUME TypeOK, TypeOK', UsersAreConnections, RoomConsistency, SendingInv, RoomInv,
         [Next]_vars
  PROVE  RoomInv'
<1>1. ASSUME NEW fd \in Fd, HandleMessage(fd) PROVE RoomInv'
  BY <1>1, RoomsAfterHandling
<1>2. ASSUME ~ \E fd \in Fd : HandleMessage(fd) PROVE RoomInv'
  <2>1. MailCut
    BY <1>2, MailStep
  <2>2. \A f \in Fd : Isolated(Committed(f)')
    BY <2>1, RoomsAfterCut
  <2>3. ASSUME NEW f \in DOMAIN users', conn'[f] = "open"
        PROVE  users'[f].room = RoomHeard(Committed(f)', Len(Committed(f)'))
    <3>1. CASE f \in DOMAIN users /\ conn[f] = "open" /\ users'[f].room = users[f].room
      <4>1. f \in Fd /\ users[f].room = RoomHeard(Committed(f), Len(Committed(f)))
        BY <3>1 DEF RoomInv, TypeOK
      <4>2. RoomHeard(Committed(f)', Len(Committed(f)'))
              = RoomHeard(Committed(f), Len(Committed(f)))
        BY <2>1, <2>3, <4>1, RoomsAfterCut
      <4>3. QED BY <3>1, <4>1, <4>2
    <3>2. CASE f \in Fd /\ AcceptClient(f) /\ users'[f].room = InvalidRoom
      <4>1. PICK p : p = Committed(f)'
        OBVIOUS
      <4>2. p = Committed(f)
        BY <3>2, <4>1, MailOfQuiet
      <4>3. to = << >> /\ conn[f] = "free"
        BY <3>2 DEF AcceptClient, AtListener, ReadyAt, Scanning
      <4>4. Len(to) = 0 /\ Len(outbox[f]) = 0
        BY <3>2, <4>3 DEF SendingInv
      <4>5. Len(p) = 0
        BY <4>2, <4>4 DEF Committed, Occurs
      <4>6. RoomHeard(p, Len(p)) = InvalidRoom
        BY <4>5 DEF RoomHeard, TellingUpTo
      <4>7. QED BY <3>2, <4>1, <4>6
    <3>3. QED BY <1>2, <2>3, <3>1, <3>2, StaysInRoom
  <2>4. QED BY <2>2, <2>3 DEF RoomInv
<1>3. QED BY <1>1, <1>2

LEMMA RoomCorrect == Spec => []RoomInv
BY RoomInit, RoomStep, TypeCorrect, UsersMatchConnections, RoomsConsistent, SendingCorrect, PTL
DEF Spec

(* A client that reads its replies knows which room the server's table has *)
(* it in: the last answer to a /join says so, "full" meaning none.         *)
THEOREM ClientsKnowTheirRoom == Spec => []ToldRoom
<1>1. TypeOK /\ RoomInv => ToldRoom
  BY PropertiesOfMail DEF RoomInv
<1>2. QED BY <1>1, RoomCorrect, TypeCorrect, PTL

(* Nobody receives what was said in a room it had not joined: on every     *)
(* connection a chat message is of the room the latest join reply before   *)
(* it put the client in.                                                   *)
THEOREM RoomsAreApart == Spec => []RoomIsolation
<1>1. TypeOK /\ RoomInv => RoomIsolation
  BY PropertiesOfMail DEF RoomInv
<1>2. QED BY <1>1, RoomCorrect, TypeCorrect, PTL

-----------------------------------------------------------------------------
(***************************************************************************)
(* When the server forgets a client with messages still unhandled.         *)
(***************************************************************************)

(* Whoever is cleared up has left: reset, or with nothing left to read.    *)
LEMMA ClearedUpHasLeft ==
  ASSUME TypeOK, PollInv, HandleHangUp \/ \E fd \in Fd : HandleEof(fd)
  PROVE  /\ Current.fd \in Fd
         /\ \/ conn[Current.fd] = "rst"
            \/ conn[Current.fd] = "fin" /\ inbox[Current.fd] = << >>
<1>1. /\ Running /\ i \in 2 .. Len(pollfds) /\ Current.fd \in DOMAIN users
  BY TerminatedIsClient
<1>2. Current.fd \in Fd
  BY <1>1 DEF TypeOK
<1>3. CASE HandleHangUp
  <2>1. "HUP" \in pollfds[i].revents /\ i \in i .. Len(pollfds)
    BY <1>1, <1>3 DEF HandleHangUp, Current, TypeOK
  <2>2. HungUp(Current.fd)
    BY <1>1, <2>1 DEF PollInv, ReadinessFresh, Fresh, Current
  <2>3. conn[Current.fd] = "rst"
    BY <2>2 DEF HungUp
  <2>4. QED BY <1>2, <2>3
<1>4. CASE \E fd \in Fd : HandleEof(fd)
  BY <1>2, <1>4 DEF HandleEof, AtClient, ReadyAt, Gone
<1>5. QED BY <1>3, <1>4

(* If no append moves the poll array, a client is forgotten with messages  *)
(* unhandled only after a reset, and a connection that was closed in an    *)
(* orderly way is reset only by the server's own send to it.  That the     *)
(* last is not harmless, the run server_orderly_close shows.               *)
THEOREM OnlyResetsLoseInput ==
  ASSUME ArrayStays
  PROVE  Spec => OnlyAResetLosesInput
<1> DEFINE Loses(fd) == conn[fd] # "free" /\ conn'[fd] = "free" /\ inbox[fd] # << >>
           Breaks(fd) == conn[fd] = "fin" /\ conn'[fd] = "rst"
           Goal == \A fd \in Fd : /\ Loses(fd) => conn[fd] = "rst"
                                  /\ Breaks(fd) => to # << >> /\ Head(to) = fd
<1>1. ASSUME TypeOK, PollInv, Next PROVE Goal
  <2>0. conn \in [Fd -> {"free", "open", "fin", "rst"}]
    BY <1>1 DEF TypeOK
  <2>1. ASSUME HandleHangUp \/ \E fd \in Fd : HandleEof(fd) PROVE Goal
    <3>1. /\ Current.fd \in Fd
          /\ \/ conn[Current.fd] = "rst"
             \/ conn[Current.fd] = "fin" /\ inbox[Current.fd] = << >>
      BY <1>1, <2>1, ClearedUpHasLeft
    <3>2. /\ handle_client_termination(Current.fd)
          /\ user_table_find(users, Current.fd)
      BY <1>1, <2>1, TerminatedIsClient
    <3>3. conn' = [conn EXCEPT ![Current.fd] = "free"]
      BY <3>2 DEF handle_client_termination
    <3>4. /\ conn'[Current.fd] = "free" /\ \A u \in Fd : u # Current.fd => conn'[u] = conn[u]
          /\ \A u \in Fd : conn'[u] = "fin" \/ conn'[u] = "rst" => conn'[u] = conn[u]
      BY <2>0, <3>1, <3>3
    <3>5. ASSUME NEW fd \in Fd
          PROVE  (Loses(fd) => conn[fd] = "rst") /\ ~Breaks(fd)
      <4>1. CASE fd = Current.fd
        BY <3>1, <3>4, <4>1
      <4>2. CASE fd # Current.fd
        BY <3>4, <4>2
      <4>3. QED BY <4>1, <4>2
    <3>6. QED BY <3>5
  <2>2. ASSUME NEW c \in Fd, ClientClose(c) PROVE Goal
    <3>1. PICK how \in {"rst", "fin"} : conn[c] = "open" /\ conn' = [conn EXCEPT ![c] = how]
      BY <2>2 DEF ClientClose
    <3>2. \A u \in Fd : \/ conn'[u] = conn[u]
                        \/ conn[u] = "open" /\ (conn'[u] = "rst" \/ conn'[u] = "fin")
      BY <2>0, <3>1
    <3>3. QED BY <3>2
  <2>3. CASE SendStep
    <3>1. to # << >>
      BY <2>3 DEF SendStep
    <3>2. CASE SendAfterFin(Head(to))
      <4>1. PICK c \in {"fin", "rst"} : conn' = [conn EXCEPT ![Head(to)] = c]
        BY <3>2 DEF SendAfterFin
      <4>2. \A u \in Fd : /\ conn'[u] # "free" \/ conn'[u] = conn[u]
                          /\ u # Head(to) => conn'[u] = conn[u]
        BY <2>0, <4>1
      <4>3. QED BY <3>1, <4>2
    <3>3. CASE Send(Head(to)) \/ SendFails(Head(to))
      <4>1. conn' = conn
        BY <3>3 DEF Send, SendFails
      <4>2. QED BY <4>1
    <3>4. QED BY <2>3, <3>2, <3>3 DEF SendStep
  <2>4. ASSUME NEW c \in Fd, AcceptClient(c) PROVE Goal
    <3>1. conn' = [conn EXCEPT ![c] = "open"]
      BY <2>4 DEF AcceptClient
    <3>2. \A u \in Fd : conn'[u] = conn[u] \/ conn'[u] = "open"
      BY <2>0, <3>1
    <3>3. QED BY <3>2
  <2>5. CASE UNCHANGED conn
    BY <2>5
  <2>6. QED
    <3> HIDE DEF Goal
    <3>1. QED
      BY <1>1, <2>1, <2>2, <2>3, <2>4, <2>5
      DEF Next, ServerNext, ServerRuns, ClientNext, Poll, PollFails, Skip, AcceptFails,
          RecvFails, HandleMessage, Connect, ClientSend, ClientRead, kernel
<1>2. Spec => [][TypeOK /\ PollInv /\ Next]_vars
  <2>1. TypeOK /\ PollInv /\ [Next]_vars => [TypeOK /\ PollInv /\ Next]_vars
    OBVIOUS
  <2>2. QED BY <2>1, TypeCorrect, PollInvariant, PTL DEF Spec
<1>3. (TypeOK /\ PollInv /\ Next) => Goal
  BY <1>1
<1>4. QED BY <1>2, <1>3, PTL DEF OnlyAResetLosesInput

-----------------------------------------------------------------------------
(***************************************************************************)
(* The server implements the chat service.  One lemma per kind of step:    *)
(* it is the service's step of the same meaning, or changes nothing the    *)
(* service speaks of.                                                      *)
(***************************************************************************)
ServiceStep == [Service!Next]_(Service!vars)

(* Both speak of the same messages.                                        *)
LEMMA SameMessages ==
  /\ \A Ids, R, N : Service!Requests(Ids, R, N) = Requests(Ids, R, N)
  /\ \A reply, r : Service!ReplyMessage(reply, r) = ReplyMessage(reply, r)
  /\ \A id, from, name, r :
       Service!ChatMessage(id, from, name, r) = ChatMessage(id, from, name, r)
BY DEF Service!Requests, Service!ChatRequest, Service!JoinRequest, Service!NameRequest,
   Service!ReplyMessage, Service!ChatMessage, Requests, ChatRequest, JoinRequest, NameRequest,
   ReplyMessage, ChatMessage

LEMMA ServiceInit == Init => Service!Init
<1> SUFFICES ASSUME Init PROVE Service!Init
  OBVIOUS
<1>1. /\ DOMAIN users = {} /\ users = << >>
      /\ conn = [fd \in Fd |-> "free"] /\ inbox = [fd \in Fd |-> << >>]
      /\ \A fd \in Fd : Committed(fd) = << >>
      /\ Running
  BY DEF Init, Running, Committed
<1>2. /\ [fd \in DOMAIN users |-> users[fd].room] = << >>
      /\ [fd \in DOMAIN users |-> users[fd].name] = << >>
  BY <1>1
<1>3. {fd \in Fd : conn[fd] = "open"} = {}
  BY <1>1
<1>4. [fd \in Fd |-> Committed(fd)] = [fd \in Fd |-> << >>]
  BY <1>1
<1>5. QED BY <1>1, <1>2, <1>3, <1>4 DEF Service!Init

(* The steps of the kernel, of poll() and of clients that read, and sends. *)
LEMMA ServiceUnchanged ==
  ASSUME users' = users, inbox' = inbox, status' = status,
         \A u \in Fd : conn'[u] = "open" <=> conn[u] = "open",
         \A u \in Fd : Committed(u)' = Committed(u)
  PROVE  ServiceStep
<1>1. Running' = Running
  BY DEF Running
<1>2. {fd \in Fd : conn'[fd] = "open"} = {fd \in Fd : conn[fd] = "open"}
  OBVIOUS
<1>3. [fd \in Fd |-> Committed(fd)'] = [fd \in Fd |-> Committed(fd)]
  OBVIOUS
<1>4. UNCHANGED Service!vars
  BY <1>1, <1>2, <1>3 DEF Service!vars
<1>5. QED BY <1>4 DEF ServiceStep

LEMMA ServiceArrive ==
  ASSUME TypeOK, UsersAreConnections, NEW fd \in Fd, AcceptClient(fd)
  PROVE  ServiceStep
<1>1. /\ fd \notin DOMAIN users /\ conn' = [conn EXCEPT ![fd] = "open"]
      /\ inbox' = inbox /\ Running
  BY DEF AcceptClient, UsersAreConnections, AtListener, ReadyAt, Scanning
<1>2. users' = user_table_add(users, fd) /\ status' = status
  BY <1>1 DEF AcceptClient, user_table_find
<1>3. /\ DOMAIN users' = DOMAIN users \cup {fd}
      /\ \A u \in DOMAIN users : users'[u] = users[u]
      /\ users'[fd] = NewUser
  BY <1>1, <1>2 DEF user_table_add
<1>4. [u \in DOMAIN users' |-> users'[u].room] =
        [v \in DOMAIN users \cup {fd} |-> IF v = fd THEN InvalidRoom ELSE users[v].room]
  BY <1>1, <1>3 DEF NewUser
<1>5. [u \in DOMAIN users' |-> users'[u].name] =
        [v \in DOMAIN users \cup {fd} |-> IF v = fd THEN Anonymous ELSE users[v].name]
  BY <1>1, <1>3 DEF NewUser
<1>6. {u \in Fd : conn'[u] = "open"} = {u \in Fd : conn[u] = "open"} \cup {fd}
  BY <1>1 DEF TypeOK
<1>7. [u \in Fd |-> Committed(u)'] = [u \in Fd |-> Committed(u)]
  BY MailOfQuiet
<1>8. Running' = Running
  BY <1>2 DEF Running
<1>9. Service!Arrive(fd)
  BY <1>1, <1>4, <1>5, <1>6, <1>7, <1>8 DEF Service!Arrive
<1>10. QED BY <1>1, <1>9 DEF ServiceStep, Service!Next

LEMMA ServiceAsk ==
  ASSUME TypeOK, UsersAreConnections, NEW fd \in Fd, ClientSend(fd)
  PROVE  ServiceStep
<1>1. /\ Running /\ conn[fd] = "open" /\ conn' = conn /\ users' = users /\ status' = status
      /\ nsent' = nsent + 1 /\ nsent < MaxSent
  BY DEF ClientSend, process
<1>2. PICK m \in Requests({nsent'}, RoomRequests, NewNames) :
        inbox' = [inbox EXCEPT ![fd] = Append(@, m)]
  BY DEF ClientSend
<1>3. m \in Requests(1 .. MaxSent, RoomRequests, NewNames)
  <2>1. nsent' \in 1 .. MaxSent
    <3>1. nsent \in 0 .. MaxSent
      BY DEF TypeOK
    <3>2. QED BY <1>1, <3>1, ServerAssumption
  <2>2. QED BY <1>2, <2>1 DEF Requests
<1>4. [u \in Fd |-> Committed(u)'] = [u \in Fd |-> Committed(u)]
  BY MailOfQuiet
<1>5. Running' = Running
  BY <1>1 DEF Running
<1>6. Service!Ask(fd)
  BY <1>1, <1>2, <1>3, <1>4, <1>5, SameMessages DEF Service!Ask
<1>7. QED BY <1>1, <1>6 DEF ServiceStep, Service!Next

LEMMA ServiceDepart ==
  ASSUME TypeOK, NEW fd \in Fd, ClientClose(fd)
  PROVE  ServiceStep
<1>1. /\ Running /\ conn[fd] = "open" /\ users' = users /\ status' = status /\ inbox' = inbox
  BY DEF ClientClose, process
<1>2. /\ conn'[fd] \in {"fin", "rst"} /\ Committed(fd)' = << >>
      /\ \A u \in Fd : u # fd => conn'[u] = conn[u] /\ Committed(u)' = Committed(u)
  BY MailOfClose
<1>3. {u \in Fd : conn'[u] = "open"} = {u \in Fd : conn[u] = "open"} \ {fd}
  BY <1>2
<1>4. [u \in Fd |-> Committed(u)'] = [[u \in Fd |-> Committed(u)] EXCEPT ![fd] = << >>]
  BY <1>2
<1>5. Running' = Running
  BY <1>1 DEF Running
<1>6. Service!Depart(fd)
  BY <1>1, <1>3, <1>4, <1>5 DEF Service!Depart
<1>7. QED BY <1>1, <1>6 DEF ServiceStep, Service!Next

LEMMA ServiceForget ==
  ASSUME TypeOK, PollInv, SendingInv, HandleHangUp \/ \E fd \in Fd : HandleEof(fd)
  PROVE  ServiceStep
<1>1. PICK fd : fd = Current.fd
  OBVIOUS
<1>2. /\ fd \in Fd /\ fd \in DOMAIN users /\ conn[fd] \in {"fin", "rst"}
      /\ handle_client_termination(fd) /\ user_table_find(users, fd)
  BY <1>1, ClearedUpHasLeft, TerminatedIsClient
<1>3. Scanning /\ Running
  BY DEF HandleHangUp, HandleEof, AtClient, ReadyAt, Scanning
<1>4. /\ users' = user_table_delete(users, fd) /\ status' = status
      /\ conn' = [conn EXCEPT ![fd] = "free"]
      /\ inbox' = [inbox EXCEPT ![fd] = << >>]
      /\ outbox' = [outbox EXCEPT ![fd] = << >>]
      /\ to' = to /\ to = << >>
  BY <1>2, <1>3 DEF handle_client_termination, Scanning
<1>5. {u \in Fd : conn'[u] = "open"} = {u \in Fd : conn[u] = "open"}
  BY <1>2, <1>4 DEF TypeOK
<1>6. /\ DOMAIN users' = DOMAIN users \ {fd}
      /\ \A u \in DOMAIN users' : users'[u] = users[u]
  BY <1>4 DEF user_table_delete
<1>7. /\ [u \in DOMAIN users' |-> users'[u].room] =
           [v \in DOMAIN users \ {fd} |-> users[v].room]
      /\ [u \in DOMAIN users' |-> users'[u].name] =
           [v \in DOMAIN users \ {fd} |-> users[v].name]
  BY <1>6
<1>8. \A u \in Fd : Committed(u)' = Committed(u)
  <2>1. Len(to) = 0 /\ Len(to') = 0
    BY <1>4
  <2>2. \A u \in Fd : Committed(u) = outbox[u] /\ Committed(u)' = outbox'[u]
    BY <2>1 DEF Committed, Occurs
  <2>3. outbox[fd] = << >>
    BY <1>2, EmptySeq DEF SendingInv, TypeOK
  <2>4. outbox' = outbox
    BY <1>2, <1>4, <2>3 DEF TypeOK
  <2>5. QED BY <2>2, <2>4
<1>9. [u \in Fd |-> Committed(u)'] = [u \in Fd |-> Committed(u)]
  BY <1>8
<1>10. Running' = Running
  BY <1>4 DEF Running
<1>11. fd \in DOMAIN users \ {u \in Fd : conn[u] = "open"}
  BY <1>2
<1>12. Service!Forget(fd)
  BY <1>4, <1>5, <1>7, <1>9, <1>10, <1>11 DEF Service!Forget
<1>13. QED BY <1>2, <1>3, <1>12 DEF ServiceStep, Service!Next

(* The process ends.  Those it was sending a chat message to lose it.      *)
LEMMA ServiceStop ==
  ASSUME TypeOK, TypeOK', SendingInv, SendStep, status' # status
  PROVE  ServiceStep
<1>1. /\ Running /\ ~Running' /\ conn' = conn
      /\ \A u \in Fd :
           \/ Committed(u)' = Committed(u)
           \/ msg.type = "CHAT" /\ Committed(u) = Append(Committed(u)', msg)
  BY MailOfFailure
<1>2. users' = users /\ inbox' = inbox
  BY DEF SendStep
<1>3. PICK missed \in SUBSET Fd :
        /\ \A u \in missed : Committed(u) = Append(Committed(u)', msg)
        /\ \A u \in Fd \ missed : Committed(u)' = Committed(u)
  <2> WITNESS {u \in Fd : Committed(u) = Append(Committed(u)', msg)} \in SUBSET Fd
  <2> QED BY <1>1
<1>4. ASSUME NEW u \in missed
      PROVE  /\ Committed(u) # << >> /\ Service!Last(Committed(u)) = msg
             /\ Service!Front(Committed(u)) = Committed(u)'
  <2>1. PICK s : s = Committed(u)
    OBVIOUS
  <2>2. PICK p : p = Committed(u)'
    OBVIOUS
  <2>3. s = Append(p, msg) /\ u \in Fd
    BY <1>3, <2>1, <2>2
  <2>4. p \in Seq(SentMessages')
    BY <2>2, <2>3, CommittedTypeNext
  <2>5. /\ Len(s) = Len(p) + 1 /\ Len(p) \in Nat /\ s[Len(p) + 1] = msg
        /\ \A k \in 1 .. Len(p) : s[k] = p[k]
    BY <2>3, <2>4
  <2>6. s # << >>
    BY <2>5
  <2>7. Service!Last(s) = msg
    BY <2>5 DEF Service!Last
  <2>8. SubSeq(s, 1, Len(s) - 1) = p
    <3>1. Len(s) - 1 = Len(p)
      BY <2>5
    <3>2. /\ SubSeq(s, 1, Len(p)) \in Seq(SentMessages')
          /\ Len(SubSeq(s, 1, Len(p))) = Len(p)
          /\ \A k \in 1 .. Len(p) : SubSeq(s, 1, Len(p))[k] = s[k]
      BY <2>4, <2>5, SubSeqProperties
    <3>3. QED BY <2>4, <2>5, <3>1, <3>2, SeqEqual
  <2>9. QED BY <2>1, <2>2, <2>6, <2>7, <2>8 DEF Service!Front
<1>5. {fd \in Fd : conn'[fd] = "open"} = {fd \in Fd : conn[fd] = "open"}
  BY <1>1
<1>6. [u \in Fd |-> Committed(u)'] =
        [u \in Fd |-> IF u \in missed THEN Service!Front(Committed(u)) ELSE Committed(u)]
  BY <1>3, <1>4
<1>7. PICK mail : mail = [u \in Fd |-> Committed(u)]
  OBVIOUS
<1>8. /\ missed \in SUBSET {u \in Fd : mail[u] # << >>}
      /\ \A u, v \in missed : Service!Last(mail[u]) = Service!Last(mail[v])
      /\ [u \in Fd |-> Committed(u)'] =
           [u \in Fd |-> IF u \in missed THEN Service!Front(mail[u]) ELSE mail[u]]
  BY <1>4, <1>6, <1>7
<1>9. Running' = FALSE
  BY <1>1 DEF Running
<1>10. Service!Stop
  BY <1>2, <1>5, <1>7, <1>8, <1>9 DEF Service!Stop
<1>11. QED BY <1>1, <1>10 DEF ServiceStep, Service!Next

(* The places taken in a room are counted alike.                           *)
LEMMA PlacesTaken ==
  ASSUME TypeOK, RoomConsistency, NEW r \in RoomId
  PROVE  Service!Cardinality(Service!Present(r)) = Len(rooms[r])
<1>1. PICK P : P = Service!Present(r)
  OBVIOUS
<1>2. \A u : u \in P <=> u \in DOMAIN users /\ users[u].room = r
  BY <1>1 DEF Service!Present
<1>3. rooms[r] \in Seq(Fd) /\ Len(rooms[r]) \in Nat /\ DOMAIN users \subseteq Fd
  BY DEF TypeOK
<1>4. \A u \in Fd : Occurs(u, rooms[r]) <=> u \in P
  BY <1>2 DEF RoomConsistency
<1>5. rooms[r] \in [1 .. Len(rooms[r]) -> P]
  BY <1>3, <1>4 DEF Occurs
<1>6. \A u \in P : \E k \in 1 .. Len(rooms[r]) : rooms[r][k] = u
  BY <1>2, <1>3, <1>4 DEF Occurs
<1>7. \A j, k \in 1 .. Len(rooms[r]) : rooms[r][j] = rooms[r][k] => j = k
  BY DEF RoomConsistency, NoRepeats
<1>8. ExistsBijection(1 .. Len(rooms[r]), P)
  BY <1>5, <1>6, <1>7 DEF ExistsBijection, Bijection, Injection, Surjection, IsInjective
<1>9. Cardinality(P) = Len(rooms[r])
  BY <1>3, <1>8, FS_CountingElements
<1>10. Service!Cardinality(P) = Cardinality(P)
  BY DEF Service!Cardinality, Cardinality
<1>11. QED BY <1>1, <1>9, <1>10

(* What a handled message leaves unchanged, and that its receivers get the *)
(* answer or the message.                                                  *)
LEMMA ServiceGives ==
  ASSUME TypeOK, UsersAreConnections, RoomConsistency, NEW fd \in Fd, HandleMessage(fd),
         NEW R, \A u \in Fd : u \in R <=> Occurs(u, to')
  PROVE  Service!Give(R, msg')
<1>1. \A u \in Fd : Committed(u)' = IF u \in R \cap {v \in Fd : conn[v] = "open"}
                                    THEN Append(Committed(u), msg') ELSE Committed(u)
  BY MailOfHandled
<1>2. PICK mail : mail = [u \in Fd |-> Committed(u)]
  OBVIOUS
<1>3. PICK live : live = {v \in Fd : conn[v] = "open"}
  OBVIOUS
<1>4. [u \in Fd |-> Committed(u)'] =
        [u \in Fd |-> IF u \in R \cap live THEN Append(mail[u], msg') ELSE mail[u]]
  BY <1>1, <1>2, <1>3
<1>5. QED BY <1>2, <1>3, <1>4 DEF Service!Give

LEMMA ServiceTakesUp ==
  ASSUME TypeOK, UsersAreConnections, RoomConsistency, NEW fd \in Fd, HandleMessage(fd)
  PROVE  Running /\ Service!TakeUp(fd, Received(fd).type)
<1>1. /\ fd \in DOMAIN users /\ inbox' = [inbox EXCEPT ![fd] = Tail(@)]
      /\ Len(inbox[fd]) > 0 /\ conn' = conn /\ status' = status /\ Running
  BY Handled
<1>2. inbox[fd] # << >>
  BY <1>1
<1>3. {u \in Fd : conn'[u] = "open"} = {u \in Fd : conn[u] = "open"} /\ Running' = Running
  BY <1>1 DEF Running
<1>4. Service!TakeUp(fd, Received(fd).type)
  BY <1>1, <1>2, <1>3 DEF Service!TakeUp, Received
<1>5. QED BY <1>1, <1>4

LEMMA ServicePost ==
  ASSUME TypeOK, UsersAreConnections, RoomConsistency, NEW fd \in Fd, HandleMessage(fd),
         Received(fd).type = "CHAT", handle_chat_message(fd, Received(fd))
  PROVE  Service!Post(fd)
<1>1. Service!TakeUp(fd, "CHAT") /\ fd \in DOMAIN users
  BY ServiceTakesUp, Handled
<1>2. users' = users
  BY DEF handle_chat_message
<1>3. PICK where : where = [u \in DOMAIN users |-> users[u].room]
  OBVIOUS
<1>4. where[fd] = users[fd].room
  BY <1>1, <1>3
<1>5. CASE users[fd].room = InvalidRoom
  <2>1. ReplySent(fd) /\ msg' = ReplyMessage("not_in_room", InvalidRoom)
    <3>1. Reply(fd, "not_in_room", InvalidRoom)
      BY <1>5 DEF handle_chat_message
    <3>2. msg'.type = "REPLY" /\ msg' = ReplyMessage("not_in_room", InvalidRoom)
      BY <3>1 DEF Reply, ReplyMessage
    <3>3. QED BY <3>2, HandledSends DEF ChatSent, ChatMessage
  <2>2. Service!Give({fd}, msg')
    BY <2>1, Receivers, ServiceGives
  <2>3. QED
    BY <1>1, <1>2, <1>3, <1>4, <1>5, <2>1, <2>2, SameMessages DEF Service!Post
<1>6. CASE users[fd].room # InvalidRoom
  <2>1. /\ msg' = ChatMessage(Head(inbox[fd]).id, fd, users[fd].name, users[fd].room)
        /\ ChatSent(fd)
    <3>1. msg' = ChatMessage(Head(inbox[fd]).id, fd, users[fd].name, users[fd].room)
      BY <1>6 DEF handle_chat_message, Received
    <3>2. msg'.type # "REPLY"
      BY <3>1 DEF ChatMessage
    <3>3. QED BY <3>1, <3>2, HandledSends DEF ReplySent
  <2>2. PICK P : P = Service!Present(users[fd].room)
    OBVIOUS
  <2>3. \A u \in Fd : u \in P <=> Occurs(u, to')
    BY <2>1, <2>2, Receivers DEF Service!Present
  <2>4. Service!Give(P, msg')
    BY <2>3, ServiceGives
  <2>5. [u \in DOMAIN users |-> users[u].name][fd] = users[fd].name
    BY <1>1
  <2>6. QED
    <3>1. P \in {Service!Present(where[fd]), Service!Present(where[fd]) \ {fd}}
      BY <1>4, <2>2
    <3>2. QED
      BY <1>1, <1>2, <1>3, <1>4, <1>6, <2>1, <2>4, <2>5, <3>1, SameMessages
      DEF Service!Post
<1>7. QED BY <1>5, <1>6

LEMMA ServiceRename ==
  ASSUME TypeOK, UsersAreConnections, RoomConsistency, NEW fd \in Fd, HandleMessage(fd),
         Received(fd).type = "NAME", handle_name_message(fd, Received(fd))
  PROVE  Service!Rename(fd)
<1>1. Service!TakeUp(fd, "NAME") /\ fd \in DOMAIN users
  BY ServiceTakesUp, Handled
<1>2. /\ users' = [users EXCEPT ![fd].name = Head(inbox[fd]).name]
      /\ msg' = ReplyMessage("named", InvalidRoom)
  BY DEF handle_name_message, Reply, Received
<1>3. users \in [DOMAIN users -> [room : RoomId \cup {InvalidRoom}, name : Names]]
  BY DEF TypeOK
<1>4. /\ DOMAIN users' = DOMAIN users
      /\ \A u \in DOMAIN users :
           /\ users'[u].room = users[u].room
           /\ users'[u].name = IF u = fd THEN Head(inbox[fd]).name ELSE users[u].name
  BY <1>2, <1>3
<1>5. [u \in DOMAIN users' |-> users'[u].room] = [u \in DOMAIN users |-> users[u].room]
  BY <1>4
<1>6. [u \in DOMAIN users' |-> users'[u].name] =
        [[u \in DOMAIN users |-> users[u].name] EXCEPT ![fd] = Head(inbox[fd]).name]
  BY <1>4
<1>7. ReplySent(fd)
  BY <1>2, HandledSends DEF ChatSent, ChatMessage, ReplyMessage
<1>8. Service!Give({fd}, msg')
  BY <1>7, Receivers, ServiceGives
<1>9. QED BY <1>1, <1>2, <1>5, <1>6, <1>8, SameMessages DEF Service!Rename

LEMMA ServiceJoin ==
  ASSUME TypeOK, UsersAreConnections, RoomConsistency, NEW fd \in Fd, HandleMessage(fd),
         Received(fd).type = "JOIN", handle_join_message(fd, Received(fd))
  PROVE  Service!Join(fd)
<1>1. Service!TakeUp(fd, "JOIN") /\ fd \in DOMAIN users
  BY ServiceTakesUp, Handled
<1>2. PICK r : r = Head(inbox[fd]).room
  OBVIOUS
<1>3. PICK where : where = [u \in DOMAIN users |-> users[u].room]
  OBVIOUS
<1>4. where[fd] = users[fd].room
  BY <1>1, <1>3
<1>5. users \in [DOMAIN users -> [room : RoomId \cup {InvalidRoom}, name : Names]]
  BY DEF TypeOK
<1>6. ASSUME NEW room, NEW answer, Reply(fd, answer, r),
             \/ users' = [users EXCEPT ![fd].room = room]
             \/ users' = users /\ room = users[fd].room
      PROVE  /\ [u \in DOMAIN users' |-> users'[u].room] = [where EXCEPT ![fd] = room]
             /\ [u \in DOMAIN users' |-> users'[u].name] = [u \in DOMAIN users |-> users[u].name]
             /\ Service!Give({fd}, Service!ReplyMessage(answer, r))
  <2>1. /\ DOMAIN users' = DOMAIN users
        /\ \A u \in DOMAIN users :
             /\ users'[u].name = users[u].name
             /\ users'[u].room = IF u = fd THEN room ELSE users[u].room
    BY <1>5, <1>6
  <2>2. [u \in DOMAIN users' |-> users'[u].room] = [where EXCEPT ![fd] = room]
    BY <1>3, <2>1
  <2>3. [u \in DOMAIN users' |-> users'[u].name] = [u \in DOMAIN users |-> users[u].name]
    BY <2>1
  <2>4. msg' = ReplyMessage(answer, r)
    BY <1>6 DEF Reply
  <2>5. ReplySent(fd)
    BY <2>4, HandledSends DEF ChatSent, ChatMessage, ReplyMessage
  <2>6. Service!Give({fd}, msg')
    BY <2>5, Receivers, ServiceGives
  <2>7. QED BY <2>2, <2>3, <2>4, <2>6, SameMessages
<1>7. ASSUME r \in RoomId
      PROVE  Service!Cardinality(Service!Present(r)) < MaxUsersPerRoom <=> ~RoomIsFull(rooms[r])
  <2>1. Service!Cardinality(Service!Present(r)) = Len(rooms[r])
    BY <1>7, PlacesTaken
  <2>2. Len(rooms[r]) <= MaxUsersPerRoom
    BY <1>7 DEF RoomConsistency
  <2>3. Len(rooms[r]) \in Nat
    BY <1>7 DEF TypeOK
  <2>4. QED BY <2>1, <2>2, <2>3, RoomsAssumption DEF RoomIsFull
<1>9. CASE JoinNoSuchRoom(fd, r)
  <2>1. r \notin RoomId /\ users' = users /\ Reply(fd, "no_such_room", r)
    BY <1>9 DEF JoinNoSuchRoom, RoomExists
  <2>2. QED BY <1>1, <1>2, <1>3, <1>4, <1>6, <2>1 DEF Service!Join
<1>10. CASE JoinSameRoom(fd, r)
  <2>1. r \in RoomId /\ users[fd].room = r /\ users' = users /\ Reply(fd, "already_in", r)
    BY <1>10 DEF JoinSameRoom, RoomExists
  <2>2. QED BY <1>1, <1>2, <1>3, <1>4, <1>6, <2>1 DEF Service!Join
<1>11. CASE JoinFullRoom(fd, r)
  <2>1. /\ r \in RoomId /\ users[fd].room # r /\ RoomIsFull(rooms[r])
        /\ users' = [users EXCEPT ![fd].room = InvalidRoom] /\ Reply(fd, "full", r)
    BY <1>11 DEF JoinFullRoom, RoomExists
  <2>2. QED BY <1>1, <1>2, <1>3, <1>4, <1>6, <1>7, <2>1 DEF Service!Join
<1>12. CASE JoinRoom(fd, r)
  <2>1. /\ r \in RoomId /\ users[fd].room # r /\ ~RoomIsFull(rooms[r])
        /\ users' = [users EXCEPT ![fd].room = r] /\ Reply(fd, "joined", r)
    BY <1>12 DEF JoinRoom, RoomExists
  <2>2. QED BY <1>1, <1>2, <1>3, <1>4, <1>6, <1>7, <2>1 DEF Service!Join
<1>13. QED
  BY <1>2, <1>9, <1>10, <1>11, <1>12 DEF handle_join_message, Received

(* A handler's exit() gives up no mail.                                    *)
LEMMA ServiceStopsIdle ==
  ASSUME TypeOK, UsersAreConnections, PollFails \/ AcceptFails \/ RecvFails
  PROVE  ServiceStep
<1>1. /\ Running /\ Running' = FALSE
      /\ users' = users /\ inbox' = inbox /\ conn' = conn
  BY DEF PollFails, AcceptFails, RecvFails, AtListener, ReadyAt, Scanning, Exit, Running,
     kernel
<1>2. \A u \in Fd : Committed(u)' = Committed(u)
  BY MailOfQuiet
<1>3. PICK mail : mail = [u \in Fd |-> Committed(u)]
  OBVIOUS
<1>4. PICK missed : missed = {}
  OBVIOUS
<1>5. /\ missed \in SUBSET {u \in Fd : mail[u] # << >>}
      /\ \A u, v \in missed : Service!Last(mail[u]) = Service!Last(mail[v])
      /\ [u \in Fd |-> Committed(u)'] =
           [u \in Fd |-> IF u \in missed THEN Service!Front(mail[u]) ELSE mail[u]]
  BY <1>2, <1>3, <1>4
<1>6. Service!Stop
  BY <1>1, <1>3, <1>5 DEF Service!Stop
<1>7. QED BY <1>1, <1>6 DEF ServiceStep, Service!Next

LEMMA ServiceSimulation ==
  ASSUME TypeOK, TypeOK', UsersAreConnections, RoomConsistency, PollInv, SendingInv,
         [Next]_vars
  PROVE  ServiceStep
<1>1. CASE Poll \/ Skip \/ Connect \/ UNCHANGED vars \/ \E fd \in Fd : ClientRead(fd)
  <2>1. \A u \in Fd : Committed(u)' = Committed(u)
    BY <1>1, MailOfQuiet
  <2>2. UNCHANGED <<users, inbox, status, conn>>
    BY <1>1 DEF Poll, Skip, Connect, ClientRead, vars, process, kernel
  <2>3. QED BY <2>1, <2>2, ServiceUnchanged
<1>2. CASE SendStep
  <2>1. CASE status' # status
    BY <1>2, <2>1, ServiceStop
  <2>2. CASE status' = status
    <3>1. \A u \in Fd : Committed(u)' = Committed(u)
      BY <1>2, <2>2, MailOfSend
    <3>2. users' = users /\ inbox' = inbox
      BY <1>2 DEF SendStep
    <3>3. \A u \in Fd : conn'[u] = "open" <=> conn[u] = "open"
      <4>1. conn \in [Fd -> {"free", "open", "fin", "rst"}]
        BY DEF TypeOK
      <4>2. QED BY <1>2, <4>1 DEF SendStep, Send, SendAfterFin, SendFails
    <3>4. QED BY <2>2, <3>1, <3>2, <3>3, ServiceUnchanged
  <2>3. QED BY <2>1, <2>2
<1>3. ASSUME NEW fd \in Fd, HandleMessage(fd) PROVE ServiceStep
  <2>1. \/ Received(fd).type = "CHAT" /\ handle_chat_message(fd, Received(fd))
        \/ Received(fd).type = "NAME" /\ handle_name_message(fd, Received(fd))
        \/ Received(fd).type = "JOIN" /\ handle_join_message(fd, Received(fd))
    BY <1>3, Handled
  <2>2. Service!Post(fd) \/ Service!Rename(fd) \/ Service!Join(fd)
    BY <1>3, <2>1, ServicePost, ServiceRename, ServiceJoin
  <2>3. Running
    BY <1>3, ServiceTakesUp
  <2>4. QED BY <2>2, <2>3 DEF ServiceStep, Service!Next
<1>4. ASSUME NEW fd \in Fd, AcceptClient(fd) PROVE ServiceStep
  BY <1>4, ServiceArrive
<1>5. ASSUME NEW fd \in Fd, ClientSend(fd) PROVE ServiceStep
  BY <1>5, ServiceAsk
<1>6. ASSUME NEW fd \in Fd, ClientClose(fd) PROVE ServiceStep
  BY <1>6, ServiceDepart
<1>7. CASE HandleHangUp \/ \E fd \in Fd : HandleEof(fd)
  BY <1>7, ServiceForget
<1>8. CASE PollFails \/ AcceptFails \/ RecvFails
  BY <1>8, ServiceStopsIdle
<1>9. QED
  BY <1>1, <1>2, <1>3, <1>4, <1>5, <1>6, <1>7, <1>8 DEF Next, ServerNext, ServerRuns, ClientNext

(* If no append moves the poll array, the server does for its users what   *)
(* the chat service does, for any number of users, rooms and places in a   *)
(* room: everyone else in a room gets each message posted there, every     *)
(* request is answered once and in order, and when the process ends at     *)
(* most the message it was sending is lost.                                *)
THEOREM ServiceImplemented ==
  ASSUME ArrayStays
  PROVE  Spec => ImplementsService
<1>1. /\ TypeOK /\ TypeOK' /\ UsersAreConnections /\ RoomConsistency
      /\ PollInv /\ SendingInv /\ [Next]_vars
      => [Service!Next]_(Service!vars)
  BY ServiceSimulation DEF ServiceStep
<1>2. QED
  BY <1>1, ServiceInit, PollInvariant, TypeCorrect, UsersMatchConnections, RoomsConsistent,
     SendingCorrect, PTL
  DEF Spec, ImplementsService, Service!Spec

-----------------------------------------------------------------------------
(***************************************************************************)
(* The server is the server of ChatRooms.  One lemma per action, as above; *)
(* a pass over the poll array becomes the sets of descriptors ahead.       *)
(***************************************************************************)
TogetherStep == [Together!ServerNext]_(Together!vars)

(* The descriptors ahead, by the positions of their entries.               *)
LEMMA AheadSets ==
  \A fd :
    /\ fd \in ReadyAhead <=>
         \E k \in i .. Len(pollfds) : pollfds[k].fd = fd /\ pollfds[k].revents = {"IN"}
    /\ fd \in HupAhead <=>
         \E k \in i .. Len(pollfds) : pollfds[k].fd = fd /\ "HUP" \in pollfds[k].revents
BY DEF ReadyAhead, HupAhead, Ahead

LEMMA AheadSetsNext ==
  \A fd :
    /\ fd \in ReadyAhead' <=>
         \E k \in i' .. Len(pollfds') : pollfds'[k].fd = fd /\ pollfds'[k].revents = {"IN"}
    /\ fd \in HupAhead' <=>
         \E k \in i' .. Len(pollfds') : pollfds'[k].fd = fd /\ "HUP" \in pollfds'[k].revents
BY DEF ReadyAhead, HupAhead, Ahead

(* All that is ahead of own's entry and still of use stays ahead.          *)
LEMMA AheadLess ==
  ASSUME NEW own,
         \A k \in i' .. Len(pollfds') :
           \/ pollfds'[k].revents = {}
           \/ \E j \in i .. Len(pollfds) : pollfds'[k] = pollfds[j] /\ pollfds[j].fd # own,
         \A j \in i .. Len(pollfds) :
           pollfds[j].fd = own \/ \E k \in i' .. Len(pollfds') : pollfds'[k] = pollfds[j]
  PROVE  ReadyAhead' = ReadyAhead \ {own} /\ HupAhead' = HupAhead \ {own}
<1>1. ASSUME NEW fd PROVE fd \in ReadyAhead' <=> fd \in ReadyAhead \ {own}
  <2>1. ASSUME fd \in ReadyAhead' PROVE fd \in ReadyAhead \ {own}
    <3>1. PICK k \in i' .. Len(pollfds') : pollfds'[k].fd = fd /\ pollfds'[k].revents = {"IN"}
      BY <2>1, AheadSetsNext
    <3>2. PICK j \in i .. Len(pollfds) : pollfds'[k] = pollfds[j] /\ pollfds[j].fd # own
      BY <3>1
    <3>3. QED BY <3>1, <3>2, AheadSets
  <2>2. ASSUME fd \in ReadyAhead, fd # own PROVE fd \in ReadyAhead'
    <3>1. PICK j \in i .. Len(pollfds) : pollfds[j].fd = fd /\ pollfds[j].revents = {"IN"}
      BY <2>2, AheadSets
    <3>2. PICK k \in i' .. Len(pollfds') : pollfds'[k] = pollfds[j]
      BY <2>2, <3>1
    <3>3. QED BY <3>1, <3>2, AheadSetsNext
  <2>3. QED BY <2>1, <2>2
<1>2. ASSUME NEW fd PROVE fd \in HupAhead' <=> fd \in HupAhead \ {own}
  <2>1. ASSUME fd \in HupAhead' PROVE fd \in HupAhead \ {own}
    <3>1. PICK k \in i' .. Len(pollfds') : pollfds'[k].fd = fd /\ "HUP" \in pollfds'[k].revents
      BY <2>1, AheadSetsNext
    <3>2. PICK j \in i .. Len(pollfds) : pollfds'[k] = pollfds[j] /\ pollfds[j].fd # own
      BY <3>1
    <3>3. QED BY <3>1, <3>2, AheadSets
  <2>2. ASSUME fd \in HupAhead, fd # own PROVE fd \in HupAhead'
    <3>1. PICK j \in i .. Len(pollfds) : pollfds[j].fd = fd /\ "HUP" \in pollfds[j].revents
      BY <2>2, AheadSets
    <3>2. PICK k \in i' .. Len(pollfds') : pollfds'[k] = pollfds[j]
      BY <2>2, <3>1
    <3>3. QED BY <3>1, <3>2, AheadSetsNext
  <2>3. QED BY <2>1, <2>2
<1>3. QED BY <1>1, <1>2

(* What a handler at entry i leaves ahead: all but its own descriptor, if  *)
(* it advances and appends at most an entry nothing is reported of.        *)
LEMMA AheadAfterEntry ==
  ASSUME TypeOK, PollInv, i <= Len(pollfds), i' = i + 1,
         pollfds' = pollfds \/ \E fd : pollfds' = Append(pollfds, NewEntry(fd))
  PROVE  /\ ReadyAhead' = ReadyAhead \ {Current.fd}
         /\ HupAhead' = HupAhead \ {Current.fd}
<1>1. i \in 1 .. Len(pollfds) /\ Len(pollfds) \in Nat
  BY EntryFacts DEF TypeOK
<1>2. \A k \in 1 .. Len(pollfds) : pollfds[k].fd = Current.fd => k = i
  BY <1>1, DistinctEntries DEF PollInv, Current
<1>3. /\ Len(pollfds') \in {Len(pollfds), Len(pollfds) + 1}
      /\ \A k \in 1 .. Len(pollfds) : pollfds'[k] = pollfds[k]
      /\ Len(pollfds') # Len(pollfds) => pollfds'[Len(pollfds')].revents = {}
  <2>1. CASE pollfds' = pollfds
    BY <1>1, <2>1
  <2>2. ASSUME NEW fd, pollfds' = Append(pollfds, NewEntry(fd)) PROVE <1>3
    <3>1. pollfds \in Seq(Pollfd(PolledFd))
      BY EntryFacts
    <3>2. NewEntry(fd).revents = {}
      BY DEF NewEntry
    <3>3. PICK e : e = NewEntry(fd)
      OBVIOUS
    <3>4. /\ Len(pollfds') = Len(pollfds) + 1
          /\ \A k \in 1 .. Len(pollfds) : pollfds'[k] = pollfds[k]
          /\ pollfds'[Len(pollfds) + 1] = e
      BY <1>1, <2>2, <3>1, <3>3
    <3>5. QED BY <1>1, <3>2, <3>3, <3>4
  <2>3. QED BY <2>1, <2>2
<1>4. \A k \in i' .. Len(pollfds') :
        \/ pollfds'[k].revents = {}
        \/ k \in i .. Len(pollfds) /\ pollfds'[k] = pollfds[k] /\ pollfds[k].fd # Current.fd
  BY <1>1, <1>2, <1>3
<1>5. \A k \in i .. Len(pollfds) :
        pollfds[k].fd = Current.fd \/ (k \in i' .. Len(pollfds') /\ pollfds'[k] = pollfds[k])
  BY <1>1, <1>3 DEF Current
<1>6. QED BY <1>4, <1>5, AheadLess

(* A readable entry at hand is in the set.                                 *)
LEMMA CurrentIsAhead ==
  ASSUME TypeOK, PollInv, NEW fd, ReadyAt(fd)
  PROVE  /\ Together!Scanning /\ Current.fd = fd /\ i <= Len(pollfds)
         /\ fd \in ReadyAhead /\ fd \notin HupAhead
<1>1. i \in 1 .. Len(pollfds) /\ Running /\ to = << >> /\ Current.fd = fd
  BY EntryFacts DEF TypeOK, ReadyAt, Scanning
<1>2. Current.revents \subseteq Revents
  BY <1>1, EntryFacts DEF Current, Pollfd
<1>3. Current.revents = {"IN"}
  BY <1>2 DEF ReadyAt, Revents
<1>4. \A k \in i .. Len(pollfds) : pollfds[k].fd = fd => k = i
  BY <1>1, DistinctEntries DEF PollInv, Current
<1>5. fd \in ReadyAhead
  BY <1>1, <1>3, AheadSets DEF Current
<1>6. fd \notin HupAhead
  BY <1>3, <1>4, AheadSets DEF Current
<1>7. QED BY <1>1, <1>5, <1>6 DEF Together!Scanning

LEMMA TogetherPoll ==
  ASSUME TypeOK, UsersAreConnections, PollInv, Poll
  PROVE  Together!ServerPoll
<1>1. /\ Running /\ to = << >> /\ i > Len(pollfds)
      /\ UNCHANGED <<users, msg, to, status, backlog, conn, inbox, unread>>
      /\ \E k \in DOMAIN pollfds' : pollfds'[k].revents # {}
  BY DEF Poll, kernel
<1>2. /\ Len(pollfds') = Len(pollfds) /\ i' = 1
      /\ \A k \in 1 .. Len(pollfds) :
              /\ pollfds'[k].fd = pollfds[k].fd
              /\ pollfds'[k].revents = PollResult(pollfds[k].fd)
  BY PollKeepsEntries
<1>3. Len(pollfds) \in Nat /\ i \in Nat
  BY EntryFacts DEF TypeOK
<1>4. \A fd : fd \notin ReadyAhead /\ fd \notin HupAhead
  BY <1>1, <1>3, AheadSets
<1>5. \A fd : fd = Listener \/ (fd \in Fd /\ conn[fd] # "free") =>
              \E k \in 1 .. Len(pollfds) : pollfds[k].fd = fd
  <2>1. \A fd \in DOMAIN users : \E k \in 1 .. Len(pollfds) : pollfds[k].fd = fd
    BY EntryFacts DEF PollInv, Registry, Occurs
  <2>2. 1 \in 1 .. Len(pollfds) /\ pollfds[1].fd = Listener
    BY <1>3 DEF PollInv, Registry
  <2>3. QED BY <2>1, <2>2 DEF UsersAreConnections
<1>6. \A fd : /\ PollResult(fd) = {"IN"} <=> Readable(fd) /\ ~HungUp(fd)
              /\ "HUP" \in PollResult(fd) <=> HungUp(fd)
  BY DEF PollResult, Revents
<1>7. \A fd : /\ Readable(fd) <=> fd \in Together!Readable
              /\ HungUp(fd) <=> fd \in Together!HungUp
              /\ Readable(fd) \/ HungUp(fd) => fd = Listener \/ (fd \in Fd /\ conn[fd] # "free")
  BY ServerAssumption DEF Readable, HungUp, Gone, Together!Readable, Together!HungUp, Together!Gone
<1>8. \A fd : /\ fd \in HupAhead' <=> fd \in Together!HungUp
              /\ fd \in ReadyAhead' <=> fd \in Together!Readable \ Together!HungUp
  <2>1. \A fd : fd \in HupAhead' <=> \E k \in 1 .. Len(pollfds) :
                                       pollfds[k].fd = fd /\ "HUP" \in PollResult(fd)
    <3>1. \A k \in 1 .. Len(pollfds) :
            /\ k \in i' .. Len(pollfds')
            /\ pollfds'[k].fd = pollfds[k].fd
            /\ "HUP" \in pollfds'[k].revents <=> "HUP" \in PollResult(pollfds[k].fd)
      BY <1>2
    <3>2. i' .. Len(pollfds') = 1 .. Len(pollfds)
      BY <1>2
    <3>3. QED BY <3>1, <3>2, AheadSetsNext
  <2>2. \A fd : fd \in ReadyAhead' <=> \E k \in 1 .. Len(pollfds) :
                                       pollfds[k].fd = fd /\ PollResult(fd) = {"IN"}
    <3>1. \A k \in 1 .. Len(pollfds) :
            /\ k \in i' .. Len(pollfds')
            /\ pollfds'[k].fd = pollfds[k].fd
            /\ pollfds'[k].revents = {"IN"} <=> PollResult(pollfds[k].fd) = {"IN"}
      BY <1>2
    <3>2. i' .. Len(pollfds') = 1 .. Len(pollfds)
      BY <1>2
    <3>3. ASSUME NEW fd, fd \in ReadyAhead'
          PROVE  \E k \in 1 .. Len(pollfds) : pollfds[k].fd = fd /\ PollResult(fd) = {"IN"}
      <4>1. PICK k \in i' .. Len(pollfds') : pollfds'[k].fd = fd /\ pollfds'[k].revents = {"IN"}
        BY <3>3, AheadSetsNext
      <4>2. QED BY <3>1, <3>2, <4>1
    <3>4. ASSUME NEW k \in 1 .. Len(pollfds), PollResult(pollfds[k].fd) = {"IN"}
          PROVE  pollfds[k].fd \in ReadyAhead'
      BY <3>1, <3>4, AheadSetsNext
    <3>5. QED BY <3>3, <3>4
  <2>3. QED BY <1>5, <1>6, <1>7, <2>1, <2>2
<1>9. HupAhead' = Together!HungUp /\ ReadyAhead' = Together!Readable \ Together!HungUp
  BY <1>8
<1>10. ReadyAhead' \cup HupAhead' # {}
  <2>1. PICK k \in 1 .. Len(pollfds') : pollfds'[k].revents # {}
    <3>1. DOMAIN pollfds' = 1 .. Len(pollfds')
      BY EntryFacts, <1>2 DEF Poll
    <3>2. QED BY <1>1, <3>1
  <2>2. pollfds'[k].revents = {"IN"} \/ "HUP" \in pollfds'[k].revents
    BY <1>2, <2>1 DEF PollResult, Revents
  <2>3. QED BY <1>2, <2>1, <2>2, AheadSetsNext
<1>11. UNCHANGED <<Running, RoomOfUser, Outgoing>>
  BY <1>1 DEF Running, RoomOfUser, Outgoing
<1>12. QED
  BY <1>1, <1>4, <1>9, <1>10, <1>11
  DEF Together!ServerPoll, Together!Scanning, Together!kernel, Together!clients

(* handle_new_client, with or without a descriptor and memory.             *)
LEMMA TogetherAccept ==
  ASSUME TypeOK, UsersAreConnections, PollInv, ArrayStays,
         NEW fd \in Fd, AcceptClient(fd)
  PROVE  Together!Accept(fd)
<1>1. ReadyAt(Listener) /\ backlog > 0 /\ conn[fd] = "free"
  BY DEF AcceptClient, AtListener
<1>2. /\ Together!Scanning /\ Current.fd = Listener /\ i <= Len(pollfds)
      /\ Listener \in ReadyAhead /\ Listener \notin HupAhead
  BY <1>1, CurrentIsAhead
<1>3. /\ fd \notin DOMAIN users /\ i' = i + 1 /\ status' = status
      /\ pollfds' = Append(pollfds, NewEntry(fd))
  BY AcceptedIsNew
<1>4. ReadyAhead' = ReadyAhead \ {Listener} /\ HupAhead' = HupAhead
  BY <1>2, <1>3, AheadAfterEntry
<1>5. /\ backlog' = backlog - 1 /\ conn' = [conn EXCEPT ![fd] = "open"]
      /\ users' = user_table_add(users, fd)
      /\ UNCHANGED <<msg, to, inbox, unread>>
  BY <1>3 DEF AcceptClient, user_table_find
<1>6. RoomOfUser' = [u \in DOMAIN RoomOfUser \cup {fd} |->
                       IF u = fd THEN InvalidRoom ELSE RoomOfUser[u]]
  BY <1>5 DEF RoomOfUser, user_table_add, NewUser
<1>7. UNCHANGED <<Running, Outgoing>>
  BY <1>3, <1>5 DEF Running, Outgoing
<1>8. QED
  BY <1>1, <1>2, <1>4, <1>5, <1>6, <1>7
  DEF Together!Accept, Together!AtListener, Together!InvalidRoom, Together!clients, InvalidRoom

LEMMA TogetherAcceptFails ==
  ASSUME TypeOK, PollInv, AcceptFails
  PROVE  Together!AcceptFails
<1>1. ReadyAt(Listener) /\ backlog > 0 /\ (Exit("no_descriptor") \/ Exit("no_memory"))
      /\ UNCHANGED <<arrays, i, users, kernel>>
  BY DEF AcceptFails, AtListener
<1>2. Together!Scanning /\ Listener \in ReadyAhead
  BY <1>1, CurrentIsAhead
<1>3. ~Running' /\ msg' = NoMessage /\ to' = << >>
  BY <1>1 DEF Exit, Running
<1>4. Outgoing' = Together!NoMessage /\ Running' = FALSE
  BY <1>3 DEF Outgoing, NoMessage, Together!NoMessage, Running
<1>5. UNCHANGED <<ReadyAhead, HupAhead, RoomOfUser>>
  BY <1>1 DEF ReadyAhead, HupAhead, Ahead, RoomOfUser, arrays
<1>6. UNCHANGED <<backlog, conn, inbox, unread>>
  BY <1>1 DEF kernel
<1>7. QED
  BY <1>1, <1>2, <1>3, <1>4, <1>5, <1>6
  DEF Together!AcceptFails, Together!AtListener, Together!Exit, Together!kernel, Together!clients

(* handle_client_termination, after a hang-up or at the end of the input.  *)
LEMMA AheadAfterDelete ==
  ASSUME TypeOK, PollInv, i \in 1 .. Len(pollfds), i' = i, pollfds' = SwapRemove(pollfds, i)
  PROVE  /\ ReadyAhead' = ReadyAhead \ {Current.fd}
         /\ HupAhead' = HupAhead \ {Current.fd}
<1>1. Len(pollfds) \in Nat /\ i \in Nat
  BY EntryFacts DEF TypeOK
<1>2. \A k \in 1 .. Len(pollfds) : pollfds[k].fd = Current.fd => k = i
  BY <1>1, DistinctEntries DEF PollInv, Current
<1>3. /\ Len(pollfds') = Len(pollfds) - 1
      /\ \A k \in 1 .. (Len(pollfds) - 1) :
           pollfds'[k] = IF k = i THEN pollfds[Len(pollfds)] ELSE pollfds[k]
  BY EntryFacts, SwapRemoveShape
<1>4. \A k \in i' .. Len(pollfds') : \E j \in i .. Len(pollfds) :
        pollfds'[k] = pollfds[j] /\ pollfds[j].fd # Current.fd
  <2>1. ASSUME NEW k \in i' .. Len(pollfds') PROVE \E j \in i .. Len(pollfds) :
          pollfds'[k] = pollfds[j] /\ j # i
    <3>1. CASE k = i
      <4>1. Len(pollfds) \in i .. Len(pollfds) /\ Len(pollfds) # i
        BY <1>1, <1>3, <3>1
      <4>2. QED BY <1>1, <1>3, <3>1, <4>1
    <3>2. CASE k # i
      BY <1>1, <1>3, <3>2
    <3>3. QED BY <3>1, <3>2
  <2>2. QED BY <1>1, <1>2, <2>1
<1>5. \A j \in i .. Len(pollfds) :
        pollfds[j].fd = Current.fd \/ \E k \in i' .. Len(pollfds') : pollfds'[k] = pollfds[j]
  <2>1. ASSUME NEW j \in i .. Len(pollfds), j # i
        PROVE  \E k \in i' .. Len(pollfds') : pollfds'[k] = pollfds[j]
    <3>1. CASE j = Len(pollfds)
      <4>1. i \in i' .. Len(pollfds') /\ pollfds'[i] = pollfds[j]
        BY <1>1, <1>3, <2>1, <3>1
      <4>2. QED BY <4>1
    <3>2. CASE j # Len(pollfds)
      <4>1. j \in i' .. Len(pollfds') /\ pollfds'[j] = pollfds[j]
        BY <1>1, <1>3, <2>1, <3>2
      <4>2. QED BY <4>1
    <3>3. QED BY <3>1, <3>2
  <2>2. QED BY <2>1 DEF Current
<1>6. QED BY <1>4, <1>5, AheadLess

LEMMA TogetherTerminate ==
  ASSUME TypeOK, PollInv, HandleHangUp \/ \E fd \in Fd : HandleEof(fd)
  PROVE  \E fd \in Fd : Together!Terminate(fd)
<1>1. PICK fd : fd = Current.fd
  OBVIOUS
<1>2. /\ Running /\ i \in 2 .. Len(pollfds) /\ fd \in DOMAIN users
      /\ user_table_find(users, fd) /\ handle_client_termination(fd)
      /\ pollfds' = SwapRemove(pollfds, i) /\ i' = i
  BY <1>1, TerminatedIsClient
<1>3. fd \in Fd
  BY <1>2 DEF TypeOK
<1>4. /\ users' = user_table_delete(users, fd)
      /\ conn' = [conn EXCEPT ![fd] = "free"]
      /\ inbox' = [inbox EXCEPT ![fd] = << >>]
      /\ unread' = [unread EXCEPT ![fd] = 0]
      /\ UNCHANGED <<msg, to, status, backlog>>
  BY <1>2 DEF handle_client_termination
<1>5. ReadyAhead' = ReadyAhead \ {fd} /\ HupAhead' = HupAhead \ {fd}
  BY <1>1, <1>2, AheadAfterDelete
<1>6. Together!Scanning /\ (fd \in HupAhead \/ (fd \in ReadyAhead /\ Together!Gone(fd) /\ inbox[fd] = << >>))
  <2>1. CASE HandleHangUp
    <3>1. Scanning /\ "HUP" \in pollfds[i].revents /\ pollfds[i].fd = fd
      BY <1>1, <2>1 DEF HandleHangUp, Current
    <3>2. i \in i .. Len(pollfds)
      BY <1>2, EntryFacts
    <3>3. fd \in HupAhead
      BY <3>1, <3>2, AheadSets
    <3>4. QED BY <3>1, <3>3 DEF Scanning, Together!Scanning
  <2>2. ASSUME NEW f \in Fd, HandleEof(f) PROVE <1>6
    <3>1. ReadyAt(f) /\ inbox[f] = << >> /\ Gone(f)
      BY <2>2 DEF HandleEof, AtClient
    <3>2. f = fd /\ f \in ReadyAhead /\ Together!Scanning
      BY <1>1, <3>1, CurrentIsAhead
    <3>3. QED BY <3>1, <3>2 DEF Gone, Together!Gone
  <2>3. QED BY <2>1, <2>2
<1>7. RoomOfUser' = [u \in DOMAIN RoomOfUser \ {fd} |-> RoomOfUser[u]]
  BY <1>4 DEF RoomOfUser, user_table_delete
<1>8. UNCHANGED <<Running, Outgoing>>
  BY <1>4 DEF Running, Outgoing
<1>11. /\ UNCHANGED <<to, backlog>> /\ conn' = [conn EXCEPT ![fd] = "free"]
       /\ inbox' = [inbox EXCEPT ![fd] = << >>]
       /\ [f \in Fd |-> [k \in 1 .. unread'[f] |-> 1]]
            = [[f \in Fd |-> [k \in 1 .. unread[f] |-> 1]] EXCEPT ![fd] = << >>]
  <2>1. unread \in [Fd -> 0 .. SockBuf] /\ [k \in 1 .. 0 |-> 1] = << >>
    BY DEF TypeOK
  <2>2. QED BY <1>3, <1>4, <2>1
<1>9. Together!Terminate(fd)
  BY <1>3, <1>5, <1>6, <1>7, <1>8, <1>11 DEF Together!Terminate, Together!clients
<1>10. QED BY <1>3, <1>9

(* poll() fails at the end of a pass: nothing is ahead any more.           *)
LEMMA TogetherPollFails ==
  ASSUME TypeOK, PollInv, PollFails
  PROVE  Together!PollFails
<1>1. /\ Running /\ to = << >> /\ i > Len(pollfds) /\ Exit("poll_failed")
      /\ UNCHANGED <<arrays, i, users, kernel>>
  BY DEF PollFails
<1>2. Len(pollfds) \in Nat /\ i \in Nat
  BY EntryFacts DEF TypeOK
<1>3. ReadyAhead = {} /\ HupAhead = {}
  BY <1>1, <1>2, AheadSets
<1>4. ~Running' /\ msg' = NoMessage /\ to' = << >>
  BY <1>1 DEF Exit, Running
<1>5. Outgoing' = Together!NoMessage /\ Running' = FALSE
  BY <1>4 DEF Outgoing, NoMessage, Together!NoMessage, Running
<1>6. UNCHANGED <<ReadyAhead, HupAhead, RoomOfUser, backlog, conn, inbox, unread>>
  BY <1>1 DEF ReadyAhead, HupAhead, Ahead, RoomOfUser, arrays, kernel
<1>7. QED
  BY <1>1, <1>3, <1>4, <1>5, <1>6
  DEF Together!PollFails, Together!Scanning, Together!Exit, Together!kernel, Together!clients

(* A room's list is its members in some order, each once.                  *)
LEMMA TogetherMembers ==
  ASSUME TypeOK, RoomConsistency, NEW r \in RoomId
  PROVE  /\ Together!Cardinality(Together!Members(r)) = Len(rooms[r])
         /\ rooms[r] \in Together!SetToSeqs(Together!Members(r))
<1>1. PICK P : P = Together!Members(r)
  OBVIOUS
<1>2. \A u : u \in P <=> u \in DOMAIN users /\ users[u].room = r
  BY <1>1 DEF Together!Members, RoomOfUser
<1>3. rooms[r] \in Seq(Fd) /\ Len(rooms[r]) \in Nat /\ DOMAIN users \subseteq Fd
  BY DEF TypeOK
<1>4. \A u \in Fd : Occurs(u, rooms[r]) <=> u \in P
  BY <1>2 DEF RoomConsistency
<1>5. rooms[r] \in [1 .. Len(rooms[r]) -> P]
  BY <1>3, <1>4 DEF Occurs
<1>6. \A u \in P : \E k \in 1 .. Len(rooms[r]) : rooms[r][k] = u
  BY <1>2, <1>3, <1>4 DEF Occurs
<1>7. \A j, k \in 1 .. Len(rooms[r]) : rooms[r][j] = rooms[r][k] => j = k
  BY DEF RoomConsistency, NoRepeats
<1>8. ExistsBijection(1 .. Len(rooms[r]), P)
  BY <1>5, <1>6, <1>7 DEF ExistsBijection, Bijection, Injection, Surjection, IsInjective
<1>9. Cardinality(P) = Len(rooms[r])
  BY <1>3, <1>8, FS_CountingElements
<1>10. Together!Cardinality(P) = Len(rooms[r])
  BY <1>9 DEF Together!Cardinality, Cardinality
<1>11. rooms[r] \in Together!SetToSeqs(P)
  BY <1>5, <1>7, <1>10 DEF Together!SetToSeqs
<1>12. QED BY <1>1, <1>10, <1>11

(* The room a request leaves its user in.                                  *)
LEMMA TogetherRooms ==
  ASSUME TypeOK, UsersAreConnections, RoomConsistency, NEW fd \in Fd, HandleMessage(fd)
  PROVE  RoomOfUser' = [RoomOfUser EXCEPT ![fd] =
           IF Received(fd).type = "JOIN"
           THEN Together!RoomAfterJoin(fd, Received(fd).room) ELSE @]
<1>1. PICK m : m = Received(fd)
  OBVIOUS
<1>2. /\ fd \in DOMAIN users
      /\ users \in [DOMAIN users -> [room : RoomId \cup {InvalidRoom}, name : Names]]
      /\ \/ m.type = "CHAT" /\ handle_chat_message(fd, m)
         \/ m.type = "NAME" /\ handle_name_message(fd, m)
         \/ m.type = "JOIN" /\ handle_join_message(fd, m)
  BY <1>1, Handled DEF TypeOK
<1>3. PICK here : here = RoomOfUser
  OBVIOUS
<1>4. /\ DOMAIN here = DOMAIN users /\ here \in [DOMAIN users -> RoomId \cup {InvalidRoom}]
      /\ \A u \in DOMAIN users : here[u] = users[u].room
  BY <1>2, <1>3 DEF RoomOfUser
<1>5. CASE m.type # "JOIN"
  <2>1. DOMAIN users' = DOMAIN users /\ \A u \in DOMAIN users : users'[u].room = users[u].room
    BY <1>2, <1>5 DEF handle_chat_message, handle_name_message
  <2>2. RoomOfUser' = here
    BY <1>3, <2>1 DEF RoomOfUser
  <2>3. [here EXCEPT ![fd] = here[fd]] = here
    BY <1>4
  <2>4. QED BY <1>1, <1>3, <1>5, <2>2, <2>3
<1>6. CASE m.type = "JOIN"
  <2>1. PICK r : r = m.room
    OBVIOUS
  <2>2. handle_join_message(fd, m)
    BY <1>2, <1>6
  <2>3. PICK after : after = Together!RoomAfterJoin(fd, r)
    OBVIOUS
  <2>4. after = IF ~RoomExists(r) \/ here[fd] = r THEN here[fd]
                ELSE IF RoomIsFull(rooms[r]) THEN InvalidRoom ELSE r
    BY <1>3, <2>3, TogetherMembers
    DEF Together!RoomAfterJoin, Together!RoomExists, Together!RoomId, Together!InvalidRoom,
        RoomExists, RoomId, InvalidRoom, RoomIsFull
  <2>5. CASE JoinNoSuchRoom(fd, r) \/ JoinSameRoom(fd, r)
    <3>1. users' = users /\ after = here[fd]
      BY <1>2, <1>4, <2>4, <2>5 DEF JoinNoSuchRoom, JoinSameRoom
    <3>2. RoomOfUser' = here
      BY <1>3, <3>1 DEF RoomOfUser
    <3>3. [here EXCEPT ![fd] = after] = here
      BY <1>4, <3>1
    <3>4. QED BY <1>1, <1>3, <1>6, <2>1, <2>3, <3>2, <3>3
  <2>6. CASE JoinFullRoom(fd, r) \/ JoinRoom(fd, r)
    <3>1. users' = [users EXCEPT ![fd].room = after]
      BY <1>2, <1>4, <2>4, <2>6 DEF JoinFullRoom, JoinRoom
    <3>2. DOMAIN users' = DOMAIN users
          /\ \A u \in DOMAIN users : users'[u].room = IF u = fd THEN after ELSE users[u].room
      BY <1>2, <3>1
    <3>3. RoomOfUser' = [u \in DOMAIN users |-> IF u = fd THEN after ELSE here[u]]
      BY <1>4, <3>2 DEF RoomOfUser
    <3>4. [here EXCEPT ![fd] = after] = [u \in DOMAIN users |-> IF u = fd THEN after ELSE here[u]]
      BY <1>4
    <3>5. QED BY <1>1, <1>3, <1>6, <2>1, <2>3, <3>3, <3>4
  <2>7. QED BY <2>1, <2>2, <2>5, <2>6 DEF handle_join_message
<1>7. QED BY <1>5, <1>6

(* A message is one unit: taking it leaves the others.                     *)
LEMMA TakeOne ==
  ASSUME NEW S, NEW b \in Seq(S), Len(b) > 0
  PROVE  Together!Take(b, 1) = Tail(b)
<1>1. Len(b) \in Nat /\ Len(b) >= 1 /\ \A k \in 2 .. Len(b) : b[k] \in S
  BY DEF Together!Take
<1>2. /\ SubSeq(b, 2, Len(b)) \in Seq(S) /\ Len(SubSeq(b, 2, Len(b))) = Len(b) - 1
      /\ \A k \in 1 .. (Len(b) - 1) : SubSeq(b, 2, Len(b))[k] = b[k + 1]
  <2>1. PICK s : s = SubSeq(b, 2, Len(b))
    OBVIOUS
  <2>2. /\ SubSeq(b, 2, Len(b)) \in Seq(S)
        /\ Len(SubSeq(b, 2, Len(b))) = IF 2 <= Len(b) THEN Len(b) - 2 + 1 ELSE 0
        /\ \A k \in 1 .. (Len(b) - 2 + 1) : SubSeq(b, 2, Len(b))[k] = b[2 + k - 1]
    BY <1>1, SubSeqProperties
  <2>3. /\ s \in Seq(S) /\ Len(s) = IF 2 <= Len(b) THEN Len(b) - 2 + 1 ELSE 0
        /\ \A k \in 1 .. (Len(b) - 2 + 1) : s[k] = b[2 + k - 1]
    BY <2>1, <2>2
  <2>4. Len(s) = Len(b) - 1
    <3>1. \A n \in Nat : n >= 1 => (IF 2 <= n THEN n - 2 + 1 ELSE 0) = n - 1
      OBVIOUS
    <3>2. QED BY <1>1, <2>3, <3>1
  <2>5. ASSUME NEW k \in 1 .. (Len(b) - 1) PROVE s[k] = b[k + 1]
    <3>1. k \in 1 .. (Len(b) - 2 + 1) /\ 2 + k - 1 = k + 1
      BY <1>1
    <3>2. QED BY <2>3, <3>1
  <2>6. QED BY <2>1, <2>3, <2>4, <2>5
<1>3. /\ Tail(b) \in Seq(S) /\ Len(Tail(b)) = Len(b) - 1
      /\ \A k \in 1 .. (Len(b) - 1) : Tail(b)[k] = b[k + 1]
  BY <1>1, HeadTailProperties
<1>4. SubSeq(b, 2, Len(b)) = Tail(b)
  BY <1>2, <1>3, SeqEqual
<1>5. QED BY <1>4 DEF Together!Take

LEMMA TogetherHandles ==
  ASSUME TypeOK, UsersAreConnections, RoomConsistency, PollInv, NEW fd \in Fd, HandleMessage(fd)
  PROVE  Together!HandleMessage(fd)
<1>1. PICK m : m = Received(fd)
  OBVIOUS
<1>2. /\ fd \in DOMAIN users /\ m = Head(inbox[fd]) /\ i' = i + 1
      /\ inbox' = [inbox EXCEPT ![fd] = Tail(@)]
      /\ UNCHANGED <<arrays, status, backlog, conn, unread>>
      /\ users \in [DOMAIN users -> [room : RoomId \cup {InvalidRoom}, name : Names]]
      /\ \/ m.type = "CHAT" /\ handle_chat_message(fd, m)
         \/ m.type = "NAME" /\ handle_name_message(fd, m)
         \/ m.type = "JOIN" /\ handle_join_message(fd, m)
  BY <1>1, Handled DEF Received, TypeOK
<1>3. ReadyAt(fd) /\ conn[fd] # "free" /\ inbox[fd] # << >>
  BY DEF HandleMessage, AtClient
<1>4. /\ Together!Scanning /\ Current.fd = fd /\ i <= Len(pollfds)
      /\ fd \in ReadyAhead /\ fd \notin HupAhead
  BY <1>3, CurrentIsAhead
<1>5. ReadyAhead' = ReadyAhead \ {fd} /\ HupAhead' = HupAhead
  BY <1>2, <1>4, AheadAfterEntry DEF arrays
<1>6. PICK here : here = RoomOfUser
  OBVIOUS
<1>7. here[fd] = users[fd].room
  BY <1>2, <1>6 DEF RoomOfUser
<1>8. PICK posted : posted = (m.type = "CHAT" /\ here[fd] # InvalidRoom)
  OBVIOUS
<1>13. One[m] = 1 /\ inbox' = [inbox EXCEPT ![fd] = Together!Take(@, One[m])]
  <2>1. /\ inbox[fd] \in Seq(Requests(1 .. nsent, RoomRequests, NewNames))
        /\ Len(inbox[fd]) > 0 /\ nsent \in 0 .. MaxSent
    BY <1>3, EmptySeq DEF TypeOK
  <2>2. m \in Requests(1 .. nsent, RoomRequests, NewNames)
    BY <1>2, <2>1, HeadTailProperties
  <2>3. \A k \in 1 .. nsent : k \in 1 .. MaxSent
    BY <2>1, ServerAssumption
  <2>4. m \in Asked
    BY <2>2, <2>3 DEF Asked, Requests
  <2>5. One[m] = 1
    BY <2>4 DEF One
  <2>6. Together!Take(inbox[fd], 1) = Tail(inbox[fd])
    BY <2>1, TakeOne
  <2>7. QED BY <1>2, <2>5, <2>6
<1>9. /\ Outgoing' = IF posted THEN Together!ChatFrom(fd, One[m]) ELSE Together!Reply
      /\ to' \in IF posted THEN Together!SetToSeqs(Together!Members(here[fd])) ELSE {<<fd>>}
  <2>1. CASE posted
    <3>1. handle_chat_message(fd, m) /\ users[fd].room \in RoomId
      BY <1>2, <1>7, <1>8, <2>1
    <3>2. /\ msg' = ChatMessage(m.id, fd, users[fd].name, users[fd].room)
          /\ to' = rooms[users[fd].room]
      BY <3>1, <1>7, <1>8, <2>1 DEF handle_chat_message
    <3>3. msg'.type = "CHAT" /\ msg'.from = fd
      BY <3>2 DEF ChatMessage
    <3>4. Outgoing' = Together!ChatFrom(fd, One[m])
      BY <1>13, <3>3 DEF Outgoing, Together!ChatFrom
    <3>5. to' \in Together!SetToSeqs(Together!Members(here[fd]))
      BY <1>7, <3>1, <3>2, TogetherMembers
    <3>6. QED BY <2>1, <3>4, <3>5
  <2>2. CASE ~posted
    <3>1. \E reply, r : Reply(fd, reply, r)
      <4>1. CASE m.type = "CHAT" /\ handle_chat_message(fd, m)
        BY <1>7, <1>8, <2>2, <4>1 DEF handle_chat_message
      <4>2. CASE handle_name_message(fd, m)
        BY <4>2 DEF handle_name_message
      <4>3. CASE handle_join_message(fd, m)
        BY <4>3 DEF handle_join_message, JoinNoSuchRoom, JoinSameRoom, JoinFullRoom, JoinRoom
      <4>4. QED BY <1>2, <4>1, <4>2, <4>3
    <3>2. to' = <<fd>> /\ msg'.type = "REPLY"
      BY <3>1 DEF Reply, ReplyMessage
    <3>3. Outgoing' = Together!Reply
      BY <3>2 DEF Outgoing, Together!Reply
    <3>4. QED BY <2>2, <3>2, <3>3
  <2>3. QED BY <2>1, <2>2
<1>10. RoomOfUser' = [here EXCEPT ![fd] =
         IF m.type = "JOIN" THEN Together!RoomAfterJoin(fd, m.room) ELSE @]
  BY <1>1, <1>6, TogetherRooms
<1>11. Running' = Running
  BY <1>2 DEF Running
<1>12. QED
  BY <1>2, <1>3, <1>4, <1>5, <1>6, <1>8, <1>9, <1>10, <1>11, <1>13
  DEF Together!HandleMessage, Together!InvalidRoom, InvalidRoom, Together!clients

(* n messages of one unit in a buffer, and one more.                       *)
Cells(n) == [k \in 1 .. n |-> 1]

LEMMA PutOne ==
  ASSUME NEW n \in 0 .. SockBuf, n < SockBuf
  PROVE  Together!Fits(Cells(n), 1) /\ Together!Put(Cells(n), 1, 1) = Cells(n + 1)
<1>1. n \in Nat /\ n + 1 \in Nat /\ SockBuf \in Nat /\ n + 1 <= SockBuf
  BY ServerAssumption
<1>2. /\ Cells(n) \in Seq({1}) /\ Len(Cells(n)) = n
      /\ Cells(n + 1) \in Seq({1}) /\ Len(Cells(n + 1)) = n + 1
      /\ Cells(1) \in Seq({1}) /\ Len(Cells(1)) = 1
  BY <1>1 DEF Cells
<1>3. Together!Fits(Cells(n), 1)
  BY <1>1, <1>2 DEF Together!Fits
<1>4. /\ Cells(n) \o Cells(1) \in Seq({1})
      /\ Len(Cells(n) \o Cells(1)) = Len(Cells(n)) + Len(Cells(1))
  BY <1>2, ConcatProperties
<1>5. /\ Len(Cells(n) \o Cells(1)) = Len(Cells(n + 1))
      /\ \A k \in 1 .. Len(Cells(n + 1)) : (Cells(n) \o Cells(1))[k] = Cells(n + 1)[k]
  <2>1. Len(Cells(n) \o Cells(1)) = Len(Cells(n + 1))
    BY <1>1, <1>2, <1>4
  <2>2. \A s \in Seq({1}) : \A k \in 1 .. Len(s) : s[k] = 1
    OBVIOUS
  <2>3. QED BY <1>2, <1>4, <2>1, <2>2
<1>6. Cells(n) \o Cells(1) = Cells(n + 1)
  BY <1>2, <1>4, <1>5, SeqEqual
<1>7. QED BY <1>3, <1>6 DEF Together!Put, Cells

(* One sendall.  Whoever is still to be sent something is connected, so a  *)
(* send never meets a closed descriptor.                                   *)
LEMMA TogetherSends ==
  ASSUME TypeOK, RecipientsAreMembers, SendStep
  PROVE  Together!SendStep
<1> DEFINE fd == Head(to)
<1>2. /\ Running /\ to # << >>
      /\ Send(fd) \/ SendAfterFin(fd) \/ SendFails(fd)
      /\ UNCHANGED <<arrays, i, users, rooms, backlog, inbox, nconn, nsent>>
  BY DEF SendStep
<1>3. Len(to) > 0 /\ to \in Seq(Fd)
  BY <1>2, EmptySeq DEF TypeOK
<1>4. conn[fd] # "free"
  <2>1. fd = to[1] /\ 1 \in 1 .. Len(to)
    BY <1>3, HeadTailProperties
  <2>2. QED BY <2>1 DEF RecipientsAreMembers
<1>5. msg.type \in {"CHAT", "REPLY"}
  BY <1>3 DEF TypeOK, SentMessages, ServerMessages
<1>6. /\ msg.type = "CHAT" <=> Outgoing.type = "CHAT"
      /\ msg.type = "REPLY" <=> Outgoing.type = "REPLY"
  BY <1>5 DEF Outgoing
<1>7. UNCHANGED <<ReadyAhead, HupAhead, RoomOfUser>>
  BY <1>2 DEF ReadyAhead, HupAhead, Ahead, RoomOfUser, arrays
<1>8. NextReceiver => Together!NextReceiver
  <2>1. SUFFICES ASSUME NextReceiver PROVE Together!NextReceiver
    OBVIOUS
  <2>2. to' = Tail(to) /\ Running' = Running /\ msg' = IF Len(to) = 1 THEN NoMessage ELSE msg
    BY <2>1 DEF NextReceiver, Running
  <2>3. Outgoing' = IF Len(to) = 1 THEN Together!NoMessage ELSE Outgoing
    <3>1. CASE Len(to) = 1
      BY <2>2, <3>1 DEF Outgoing, NoMessage, Together!NoMessage
    <3>2. CASE Len(to) # 1
      BY <2>2, <3>2 DEF Outgoing
    <3>3. QED BY <3>1, <3>2
  <2>4. QED BY <2>2, <2>3 DEF Together!NextReceiver
<1>9. ASSUME NEW reason \in {"sigpipe", "chat_undeliverable"}, Exit(reason) PROVE Together!Exit
  <2>1. msg' = NoMessage /\ to' = << >> /\ Running' = FALSE
    BY <1>9 DEF Exit, Running
  <2>2. Outgoing' = Together!NoMessage
    BY <2>1 DEF Outgoing, NoMessage, Together!NoMessage
  <2>3. QED BY <2>1, <2>2 DEF Together!Exit
<1>10. Together!Send(fd) \/ Together!SendAfterFin(fd) \/ Together!SendFails(fd)
  <2>1. CASE Send(fd)
    <3>1. /\ conn[fd] = "open" /\ unread[fd] < SockBuf /\ NextReceiver /\ conn' = conn
          /\ unread' = [unread EXCEPT ![fd] = @ + 1]
      BY <2>1 DEF Send
    <3>2. Outgoing.size = 1
      BY <1>5 DEF Outgoing
    <3>3. fd \in Fd /\ unread \in [Fd -> 0 .. SockBuf]
      BY <1>3, HeadTailProperties DEF TypeOK
    <3>4. /\ Together!Fits(Cells(unread[fd]), 1)
          /\ Together!Put(Cells(unread[fd]), 1, 1) = Cells(unread[fd] + 1)
      BY <3>1, <3>3, PutOne
    <3>5. PICK cells : cells = [f \in Fd |-> Cells(unread[f])]
      OBVIOUS
    <3>6. [f \in Fd |-> Cells(unread'[f])] = [cells EXCEPT ![fd] = Cells(unread[fd] + 1)]
      BY <3>1, <3>3, <3>5
    <3>7. [f \in Fd |-> Cells(unread'[f])]
            = [cells EXCEPT ![fd] = Together!Put(@, Outgoing.size, Outgoing.size)]
      BY <3>2, <3>3, <3>4, <3>5, <3>6
    <3>8. QED BY <1>8, <3>1, <3>2, <3>3, <3>4, <3>5, <3>7 DEF Together!Send, Cells
  <2>2. CASE SendAfterFin(fd)
    BY <1>8, <2>2 DEF SendAfterFin, Together!SendAfterFin
  <2>3. CASE SendFails(fd)
    BY <1>4, <1>5, <1>6, <1>8, <1>9, <2>3 DEF SendFails, Together!SendFails
  <2>4. QED BY <1>2, <2>1, <2>2, <2>3
<1>11. UNCHANGED <<backlog, inbox>>
  BY <1>2
<1>12. QED
  BY <1>2, <1>7, <1>10, <1>11 DEF Together!SendStep, Together!clients

(* The other steps: an entry nothing was reported of is passed over; a     *)
(* receive never meets a closed descriptor.                                *)
LEMMA TogetherSkips ==
  ASSUME TypeOK, PollInv, Skip
  PROVE  UNCHANGED Together!vars
<1>1. /\ i <= Len(pollfds) /\ i' = i + 1 /\ pollfds' = pollfds /\ Current.revents = {}
      /\ UNCHANGED <<users, msg, to, status, backlog, conn, inbox, unread>>
  BY DEF Skip, Scanning, arrays, kernel
<1>2. i \in 1 .. Len(pollfds) /\ Len(pollfds) \in Nat
  BY <1>1, EntryFacts DEF TypeOK
<1>3. \A k \in i .. Len(pollfds) : pollfds[k].fd = Current.fd => pollfds[k].revents = {}
  BY <1>1, <1>2, DistinctEntries DEF PollInv, Current
<1>4. Current.fd \notin ReadyAhead /\ Current.fd \notin HupAhead
  <2>1. \A k \in i .. Len(pollfds) : pollfds[k].fd = Current.fd =>
          pollfds[k].revents # {"IN"} /\ "HUP" \notin pollfds[k].revents
    BY <1>3
  <2>2. QED BY <2>1, AheadSets
<1>5. UNCHANGED <<ReadyAhead, HupAhead, RoomOfUser, Outgoing, Running>>
  BY <1>1, <1>4, AheadAfterEntry DEF RoomOfUser, Outgoing, Running
<1>6. QED BY <1>1, <1>5 DEF Together!vars, Together!server, Together!kernel, Together!clients

LEMMA ReceivesAreFromClients ==
  ASSUME TypeOK, UsersAreConnections, PollInv PROVE ~RecvFails
<1>1. SUFFICES ASSUME RecvFails PROVE FALSE
  OBVIOUS
<1>2. i \in 1 .. Len(pollfds) /\ Current.fd # Listener
  BY <1>1, EntryFacts DEF RecvFails, Scanning, AtClient, TypeOK
<1>3. Current.fd \in DOMAIN users
  BY <1>2, DistinctEntries DEF PollInv, Current
<1>4. Current.fd \in Fd /\ conn[Current.fd] # "free"
  BY <1>3 DEF UsersAreConnections
<1>5. QED BY <1>1, <1>4 DEF RecvFails

LEMMA TogetherSimulation ==
  ASSUME TypeOK, UsersAreConnections, RoomConsistency, RecipientsAreMembers, PollInv,
         ArrayStays, Next, process' # process
  PROVE  TogetherStep
<1>1. ServerNext
  BY DEF Next, ClientNext, Connect, ClientSend, ClientRead, ClientClose
<1>2. CASE Poll
  BY <1>2, TogetherPoll DEF TogetherStep, Together!ServerNext, Together!ServerRuns
<1>3. CASE Skip
  BY <1>3, TogetherSkips DEF TogetherStep
<1>4. CASE AcceptFails
  BY <1>4, TogetherAcceptFails DEF TogetherStep, Together!ServerNext, Together!ServerRuns
<1>5. CASE SendStep
  BY <1>5, TogetherSends DEF TogetherStep, Together!ServerNext, Together!ServerRuns
<1>6. CASE HandleHangUp \/ \E fd \in Fd : HandleEof(fd)
  BY <1>6, TogetherTerminate DEF TogetherStep, Together!ServerNext, Together!ServerRuns
<1>7. ASSUME NEW fd \in Fd, AcceptClient(fd) PROVE TogetherStep
  BY <1>7, TogetherAccept DEF TogetherStep, Together!ServerNext, Together!ServerRuns
<1>8. ASSUME NEW fd \in Fd, HandleMessage(fd) PROVE TogetherStep
  BY <1>8, TogetherHandles DEF TogetherStep, Together!ServerNext, Together!ServerRuns
<1>9. CASE PollFails
  BY <1>9, TogetherPollFails DEF TogetherStep, Together!ServerNext
<1>10. QED
  BY <1>1, <1>2, <1>3, <1>4, <1>5, <1>6, <1>7, <1>8, <1>9, ReceivesAreFromClients
  DEF ServerNext, ServerRuns

(* If no append moves the poll array, every step of the server is a step   *)
(* of the server of ChatRooms or changes nothing there, for any number of  *)
(* clients and rooms and any buffers: what is shown of the standstill is   *)
(* shown of the server that edits its array in the middle of a pass.       *)
THEOREM ServerIsAServer ==
  ASSUME ArrayStays
  PROVE  Spec => ServerTakesPart
<1>1. TypeOK /\ UsersAreConnections /\ RoomConsistency /\ RecipientsAreMembers /\ PollInv
      /\ [Next]_vars => [process' # process => TogetherStep]_vars
  BY TogetherSimulation
<1>2. QED
  BY <1>1, PollInvariant, TypeCorrect, UsersMatchConnections, RoomsConsistent, RecipientsStay,
     PTL
  DEF Spec, ServerTakesPart, TogetherStep
=============================================================================
