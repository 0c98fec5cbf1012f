--------------------------- MODULE ChatRoomsProofs ---------------------------
(***************************************************************************)
(* ChatRooms keeps its types, and a standstill is for good, for any number *)
(* of clients and rooms, any buffers and messages of any size.             *)
(***************************************************************************)
EXTENDS ChatRooms, FiniteSetTheorems, SequenceTheorems, TLAPS

ServerMessage == {ChatFrom(fd, n) : fd \in Fd, n \in 1 .. SockBuf} \cup {Reply}

(* What is put into a buffer with room for it fits.                        *)
LEMMA PutShape ==
  ASSUME NEW S, NEW b \in Seq(S), NEW x \in S, NEW n \in Nat, Fits(b, n)
  PROVE  Put(b, x, n) \in Seq(S) /\ Len(Put(b, x, n)) <= SockBuf
<1>1. PICK p : p = [k \in 1 .. n |-> x]
  OBVIOUS
<1>2. p \in Seq(S) /\ Len(p) = n
  BY <1>1
<1>3. b \o p \in Seq(S) /\ Len(b \o p) = Len(b) + Len(p)
  BY <1>2, ConcatProperties
<1>4. Put(b, x, n) = b \o p
  BY <1>1 DEF Put
<1>5. QED BY <1>2, <1>3, <1>4 DEF Fits

(* What is left in a buffer is no more than it held.                       *)
LEMMA TakeShape ==
  ASSUME NEW S, NEW b \in Seq(S), Len(b) <= SockBuf, NEW n \in Nat
  PROVE  Take(b, n) \in Seq(S) /\ Len(Take(b, n)) <= SockBuf
<1>1. n + 1 \in Int /\ Len(b) \in Nat /\ \A k \in (n + 1) .. Len(b) : b[k] \in S
  OBVIOUS
<1>2. PICK s : s = SubSeq(b, n + 1, Len(b))
  OBVIOUS
<1>3. /\ SubSeq(b, n + 1, Len(b)) \in Seq(S)
      /\ Len(SubSeq(b, n + 1, Len(b))) = IF n + 1 <= Len(b) THEN Len(b) - (n + 1) + 1 ELSE 0
  BY <1>1, SubSeqProperties
<1>4. s \in Seq(S) /\ Len(s) = IF n + 1 <= Len(b) THEN Len(b) - (n + 1) + 1 ELSE 0
  BY <1>2, <1>3
<1>5. \A l, m \in Nat : (IF m + 1 <= l THEN l - (m + 1) + 1 ELSE 0) <= l
  OBVIOUS
<1>6. Len(s) <= Len(b) /\ Len(s) \in Nat
  BY <1>1, <1>4, <1>5
<1>7. Len(s) <= SockBuf
  BY <1>1, <1>6, ChatRoomsAssumption
<1>8. QED BY <1>2, <1>4, <1>7 DEF Take

(* Who a message may go to, and in which order, is a sequence of clients.  *)
LEMMA OrdersOfMembers ==
  ASSUME NEW S \in SUBSET Fd, NEW s \in SetToSeqs(S)
  PROVE  s \in Seq(Fd)
<1>1. Cardinality(S) \in Nat
  BY ChatRoomsAssumption, FS_Subset, FS_CardinalityType
<1>2. s \in [1 .. Cardinality(S) -> S]
  BY DEF SetToSeqs
<1>3. s \in Seq(S)
  BY <1>1, <1>2
<1>4. QED BY <1>3

LEMMA MessagesAreReal ==
  /\ \A m \in ServerMessage : m # NoMessage /\ m.size \in 1 .. SockBuf
  /\ TypeOK => msg \in ServerMessage \cup {NoMessage}
<1>1. ASSUME NEW m \in ServerMessage PROVE m # NoMessage /\ m.size \in 1 .. SockBuf
  BY <1>1, ChatRoomsAssumption DEF ServerMessage, ChatFrom, Reply, NoMessage
<1>2. TypeOK => msg \in ServerMessage \cup {NoMessage}
  BY DEF TypeOK, ServerMessage
<1>3. QED BY <1>1, <1>2

(* A request is answered, or given to the room it was made in.             *)
LEMMA HandlerSends ==
  ASSUME TypeOK, NEW fd \in Fd, HandleMessage(fd)
  PROVE  to' \in Seq(Fd) /\ msg' \in ServerMessage
<1> DEFINE m == Head(inq[fd])
           posted == m.type = "CHAT" /\ room[fd] # InvalidRoom
<1>1. CASE posted
  <2>1. msg' = ChatFrom(fd, EchoSize[m]) /\ to' \in SetToSeqs(Members(room[fd]))
    BY <1>1 DEF HandleMessage
  <2>2. Members(room[fd]) \subseteq Fd
    BY DEF Members, TypeOK
  <2>3. m \in Typed
    BY HeadTailProperties DEF HandleMessage, TypeOK
  <2>4. EchoSize[m] \in 1 .. SockBuf
    BY <2>3, ChatRoomsAssumption
  <2>5. QED BY <2>1, <2>2, <2>4, OrdersOfMembers DEF ServerMessage
<1>2. CASE ~posted
  <2>1. msg' = Reply /\ to' = <<fd>>
    BY <1>2 DEF HandleMessage
  <2>2. QED BY <2>1 DEF ServerMessage
<1>3. QED BY <1>1, <1>2

(* After one of its sends a handler has the others left, of the same       *)
(* message.                                                                *)
LEMMA OthersLeft ==
  ASSUME TypeOK, Len(to) > 0, NextReceiver
  PROVE  /\ Head(to) \in Fd
         /\ to' \in Seq(Fd) /\ msg' \in {msg, NoMessage}
         /\ Len(to') > 0 => msg' = msg
<1>1. to \in Seq(Fd) /\ to # << >> /\ Len(to) \in Nat
  BY DEF TypeOK
<1>2. to' = Tail(to) /\ msg' = IF Len(to) = 1 THEN NoMessage ELSE msg
  BY DEF NextReceiver
<1>3. Head(to) \in Fd /\ Tail(to) \in Seq(Fd) /\ Len(Tail(to)) = Len(to) - 1
  BY <1>1, HeadTailProperties
<1>4. QED BY <1>1, <1>2, <1>3

-----------------------------------------------------------------------------
(* What the server does keeps the types.                                   *)
LEMMA TypeServer == TypeOK /\ ServerNext => TypeOK'
<1> SUFFICES ASSUME TypeOK, ServerNext PROVE TypeOK'
  OBVIOUS
<1> USE DEF server, kernel, clients
<1>1. CASE ServerPoll
  <2>1. ready' \subseteq Fd \cup {Listener} /\ hup' \subseteq Fd
    BY <1>1 DEF ServerPoll, HungUp, Readable
  <2>2. QED BY <1>1, <2>1 DEF ServerPoll, TypeOK
<1>2. CASE AcceptFails \/ PollFails
  <2>1. to' \in Seq(Fd) /\ Len(to') = 0 /\ msg' = NoMessage /\ up' = FALSE
    BY <1>2, EmptySeq DEF AcceptFails, PollFails, Exit
  <2>2. UNCHANGED <<ready, hup, room, backlog, conn, inq, unread, todo, sending>>
    BY <1>2 DEF AcceptFails, PollFails
  <2>3. ~(Len(to') > 0)
    BY <2>1
  <2>4. up' \in BOOLEAN
    BY <2>1
  <2>5. /\ to' \in Seq(Fd)
        /\ msg' \in {ChatFrom(u, n) : u \in Fd, n \in 1 .. SockBuf} \cup {Reply, NoMessage}
    BY <2>1
  <2>6. QED BY <2>2, <2>3, <2>4, <2>5 DEF TypeOK
<1>3. CASE SendStep
  <2> DEFINE fd == Head(to)
  <2>1. /\ Len(to) > 0
        /\ UNCHANGED <<ready, hup, room, backlog, inq, clients>>
        /\ Send(fd) \/ SendAfterFin(fd) \/ SendFails(fd)
    BY <1>3 DEF SendStep, TypeOK
  <2>2. fd \in Fd
    BY <2>1, HeadTailProperties DEF TypeOK
  <2>3. /\ to' \in Seq(Fd) /\ up' \in BOOLEAN
        /\ msg' \in ServerMessage \cup {NoMessage}
        /\ Len(to') > 0 => msg' # NoMessage
    <3>1. ASSUME NextReceiver
          PROVE  /\ to' \in Seq(Fd) /\ up' = up /\ msg' \in {msg, NoMessage}
                 /\ Len(to') > 0 => msg' = msg
      BY <2>1, <3>1, OthersLeft DEF NextReceiver
    <3>2. Exit => /\ to' \in Seq(Fd) /\ ~(Len(to') > 0)
                  /\ up' \in BOOLEAN /\ msg' = NoMessage
      <4>1. ASSUME Exit PROVE to' \in Seq(Fd) /\ Len(to') = 0 /\ msg' = NoMessage
        BY <4>1, EmptySeq DEF Exit
      <4>2. Exit => up' \in BOOLEAN
        BY DEF Exit
      <4>3. QED BY <4>1, <4>2
    <3>3. NextReceiver \/ Exit
      BY <2>1 DEF Send, SendAfterFin, SendFails
    <3>4. msg \in ServerMessage \cup {NoMessage} /\ up \in BOOLEAN /\ msg # NoMessage
      BY <2>1, MessagesAreReal DEF TypeOK
    <3>5. CASE NextReceiver
      BY <3>1, <3>4, <3>5
    <3>6. CASE Exit
      BY <3>2, <3>6
    <3>7. QED BY <3>3, <3>5, <3>6
  <2>4. unread' \in [Fd -> Seq(1 .. SockBuf)] /\ \A u \in Fd : Len(unread'[u]) <= SockBuf
    <3>1. unread \in [Fd -> Seq(1 .. SockBuf)] /\ \A u \in Fd : Len(unread[u]) <= SockBuf
      BY DEF TypeOK
    <3>2. CASE Send(fd)
      <4>1. PICK n : n = msg.size
        OBVIOUS
      <4>2. /\ Fits(unread[fd], n)
            /\ unread' = [unread EXCEPT ![fd] = Put(unread[fd], n, n)]
        BY <3>2, <4>1 DEF Send
      <4>3. n \in 1 .. SockBuf
        <5>1. msg \in ServerMessage
          BY <2>1, MessagesAreReal DEF TypeOK
        <5>2. QED BY <4>1, <5>1, MessagesAreReal
      <4>4. n \in Nat
        BY <4>3, ChatRoomsAssumption
      <4>5. /\ Put(unread[fd], n, n) \in Seq(1 .. SockBuf)
            /\ Len(Put(unread[fd], n, n)) <= SockBuf
        BY <2>2, <3>1, <4>2, <4>3, <4>4, PutShape
      <4>6. QED BY <3>1, <4>2, <4>5
    <3>3. CASE SendAfterFin(fd) \/ SendFails(fd)
      BY <3>1, <3>3 DEF SendAfterFin, SendFails
    <3>4. QED BY <2>1, <3>2, <3>3
  <2>5. conn' \in [Fd -> {"free", "open", "fin", "rst"}]
    <3>1. conn \in [Fd -> {"free", "open", "fin", "rst"}]
      BY DEF TypeOK
    <3>2. QED BY <2>1, <3>1 DEF Send, SendAfterFin, SendFails
  <2>6. UNCHANGED <<ready, hup, room, backlog, inq, todo, sending>>
    BY <2>1
  <2>7. QED BY <2>3, <2>4, <2>5, <2>6 DEF TypeOK, ServerMessage
<1>4. ASSUME NEW fd \in Fd, Accept(fd) PROVE TypeOK'
  <2>1. backlog' \in 0 .. BacklogLimit
    BY <1>4, ChatRoomsAssumption DEF Accept, AtListener, TypeOK
  <2>2. /\ DOMAIN room' \subseteq Fd
        /\ room' \in [DOMAIN room' -> RoomId \cup {InvalidRoom}]
    BY <1>4 DEF Accept, TypeOK
  <2>3. conn' \in [Fd -> {"free", "open", "fin", "rst"}] /\ ready' \subseteq Fd \cup {Listener}
    BY <1>4 DEF Accept, TypeOK
  <2>4. UNCHANGED <<up, hup, msg, to, inq, unread, clients>>
    BY <1>4 DEF Accept
  <2>5. QED BY <2>1, <2>2, <2>3, <2>4 DEF TypeOK
<1>5. ASSUME NEW fd \in Fd, Terminate(fd) PROVE TypeOK'
  <2>1. /\ DOMAIN room' \subseteq Fd
        /\ room' \in [DOMAIN room' -> RoomId \cup {InvalidRoom}]
    BY <1>5 DEF Terminate, TypeOK
  <2>0. \A S : << >> \in Seq(S) /\ Len(<< >>) <= SockBuf
    BY EmptySeq, ChatRoomsAssumption
  <2>2. inq' \in [Fd -> Seq(Typed)] /\ \A u \in Fd : Len(inq'[u]) <= SockBuf
    <3>1. inq \in [Fd -> Seq(Typed)] /\ \A u \in Fd : Len(inq[u]) <= SockBuf
      BY DEF TypeOK
    <3>2. inq' = [inq EXCEPT ![fd] = << >>]
      BY <1>5 DEF Terminate
    <3>3. QED BY <2>0, <3>1, <3>2
  <2>3. unread' \in [Fd -> Seq(1 .. SockBuf)] /\ \A u \in Fd : Len(unread'[u]) <= SockBuf
    <3>1. unread \in [Fd -> Seq(1 .. SockBuf)] /\ \A u \in Fd : Len(unread[u]) <= SockBuf
      BY DEF TypeOK
    <3>2. unread' = [unread EXCEPT ![fd] = << >>]
      BY <1>5 DEF Terminate
    <3>3. QED BY <2>0, <3>1, <3>2
  <2>4. /\ conn' \in [Fd -> {"free", "open", "fin", "rst"}]
        /\ ready' \subseteq Fd \cup {Listener} /\ hup' \subseteq Fd
    BY <1>5 DEF Terminate, TypeOK
  <2>5. UNCHANGED <<up, msg, to, backlog, clients>>
    BY <1>5 DEF Terminate
  <2>6. QED BY <2>1, <2>2, <2>3, <2>4, <2>5 DEF TypeOK
<1>6. ASSUME NEW fd \in Fd, HandleMessage(fd) PROVE TypeOK'
  <2>1. to' \in Seq(Fd) /\ msg' \in ServerMessage /\ msg' # NoMessage
    BY <1>6, HandlerSends, MessagesAreReal
  <2>2. inq' \in [Fd -> Seq(Typed)] /\ \A u \in Fd : Len(inq'[u]) <= SockBuf
    <3>1. PICK n : n = Size[Head(inq[fd])]
      OBVIOUS
    <3>2. inq' = [inq EXCEPT ![fd] = Take(inq[fd], n)] /\ inq[fd] # << >>
      BY <1>6, <3>1 DEF HandleMessage
    <3>3. inq[fd] \in Seq(Typed) /\ Len(inq[fd]) <= SockBuf
      BY DEF TypeOK
    <3>4. Head(inq[fd]) \in Typed
      BY <3>2, <3>3, HeadTailProperties
    <3>5. n \in Nat
      BY <3>1, <3>4, ChatRoomsAssumption
    <3>6. Take(inq[fd], n) \in Seq(Typed) /\ Len(Take(inq[fd], n)) <= SockBuf
      BY <3>3, <3>5, TakeShape
    <3>7. QED BY <3>2, <3>6 DEF TypeOK
  <2>3. /\ DOMAIN room' \subseteq Fd
        /\ room' \in [DOMAIN room' -> RoomId \cup {InvalidRoom}]
    <3>1. PICK r : room' = [room EXCEPT ![fd] = r] /\ r \in {room[fd], RoomAfterJoin(fd, Head(inq[fd]).room)}
      BY <1>6 DEF HandleMessage
    <3>2. RoomAfterJoin(fd, Head(inq[fd]).room) \in {room[fd]} \cup RoomId \cup {InvalidRoom}
      BY DEF RoomAfterJoin, RoomExists
    <3>3. DOMAIN room \subseteq Fd /\ room \in [DOMAIN room -> RoomId \cup {InvalidRoom}]
      BY DEF TypeOK
    <3>4. fd \in DOMAIN room => r \in RoomId \cup {InvalidRoom}
      BY <3>1, <3>2, <3>3
    <3>5. QED BY <3>1, <3>3, <3>4
  <2>4. ready' \subseteq Fd \cup {Listener} /\ UNCHANGED <<up, hup, backlog, conn, unread, clients>>
    BY <1>6 DEF HandleMessage, TypeOK
  <2>5. QED BY <2>1, <2>2, <2>3, <2>4 DEF TypeOK, ServerMessage
<1>7. QED
  BY <1>1, <1>2, <1>3, <1>4, <1>5, <1>6 DEF ServerNext, ServerRuns

(* What the clients do keeps the types.                                    *)
LEMMA TypeClients ==
  ASSUME TypeOK, Connect \/ \E fd \in Fd : ClientNext(fd)
  PROVE  TypeOK'
<1> USE DEF server, kernel, clients
<1>1. CASE Connect
  <2>1. backlog' \in 0 .. BacklogLimit
    BY <1>1, ChatRoomsAssumption DEF Connect, TypeOK
  <2>2. QED BY <1>1, <2>1 DEF Connect, TypeOK
<1>2. ASSUME NEW fd \in Fd, ClientPoll(fd) PROVE TypeOK'
  BY <1>2 DEF ClientPoll, TypeOK
<1>3. ASSUME NEW fd \in Fd, ClientReads(fd) PROVE TypeOK'
  <2>1. unread' \in [Fd -> Seq(1 .. SockBuf)] /\ \A u \in Fd : Len(unread'[u]) <= SockBuf
    <3>1. PICK n : n = Head(unread[fd])
      OBVIOUS
    <3>2. unread' = [unread EXCEPT ![fd] = Take(unread[fd], n)] /\ unread[fd] # << >>
      BY <1>3, <3>1 DEF ClientReads
    <3>3. unread[fd] \in Seq(1 .. SockBuf) /\ Len(unread[fd]) <= SockBuf
      BY DEF TypeOK
    <3>4. n \in 1 .. SockBuf
      BY <3>1, <3>2, <3>3, HeadTailProperties
    <3>5. n \in Nat
      BY <3>4, ChatRoomsAssumption
    <3>6. Take(unread[fd], n) \in Seq(1 .. SockBuf) /\ Len(Take(unread[fd], n)) <= SockBuf
      BY <3>3, <3>5, TakeShape
    <3>7. QED BY <3>2, <3>6 DEF TypeOK
  <2>2. todo' \in [Fd -> SUBSET {"server", "stdin"}]
    BY <1>3 DEF ClientReads, TypeOK
  <2>3. UNCHANGED <<server, backlog, conn, inq, sending>>
    BY <1>3 DEF ClientReads
  <2>4. QED BY <2>1, <2>2, <2>3 DEF TypeOK
<1>4. ASSUME NEW fd \in Fd, ClientTakesInput(fd) PROVE TypeOK'
  BY <1>4 DEF ClientTakesInput, AtInput, TypeOK
<1>5. ASSUME NEW fd \in Fd, ClientSends(fd) PROVE TypeOK'
  <2>1. inq[fd] \in Seq(Typed) /\ sending[fd] \in Typed
    BY <1>5 DEF ClientSends, TypeOK
  <2>2. PICK m, n : m = sending[fd] /\ n = Size[sending[fd]]
    OBVIOUS
  <2>3. /\ inq' = [inq EXCEPT ![fd] = Put(inq[fd], m, n)]
        /\ Put(inq[fd], m, n) \in Seq(Typed) /\ Len(Put(inq[fd], m, n)) <= SockBuf
    <3>1. inq' = [inq EXCEPT ![fd] = Put(inq[fd], m, n)] /\ Fits(inq[fd], n)
      BY <1>5, <2>2 DEF ClientSends
    <3>2. n \in Nat
      BY <2>1, <2>2, ChatRoomsAssumption
    <3>3. QED BY <2>1, <2>2, <3>1, <3>2, PutShape
  <2>4. inq' \in [Fd -> Seq(Typed)] /\ \A u \in Fd : Len(inq'[u]) <= SockBuf
    BY <2>3 DEF TypeOK
  <2>5. sending' \in [Fd -> Typed \cup {NoMessage}]
    BY <1>5 DEF ClientSends, TypeOK
  <2>6. UNCHANGED <<server, backlog, conn, unread, todo>>
    BY <1>5 DEF ClientSends
  <2>7. QED BY <2>4, <2>5, <2>6 DEF TypeOK
<1>6. ASSUME NEW fd \in Fd, ClientLeaves(fd) PROVE TypeOK'
  <2>1. conn' \in [Fd -> {"free", "open", "fin", "rst"}]
    BY <1>6 DEF ClientLeaves, TypeOK
  <2>2. unread' \in [Fd -> Seq(1 .. SockBuf)] /\ \A u \in Fd : Len(unread'[u]) <= SockBuf
    BY <1>6, ChatRoomsAssumption DEF ClientLeaves, TypeOK
  <2>3. QED BY <1>6, <2>1, <2>2 DEF ClientLeaves, TypeOK
<1>7. QED
  BY <1>1, <1>2, <1>3, <1>4, <1>5, <1>6 DEF ClientNext

(* The composition's variables always have their types.                    *)
THEOREM TypeCorrect == Spec => []TypeOK
<1>1. Init => TypeOK
  <2>1. << >> \in Seq(Fd) /\ << >> \in Seq(Typed) /\ Len(<< >>) = 0
    BY EmptySeq
  <2>2. QED BY <2>1, ChatRoomsAssumption DEF Init, TypeOK
<1>2. TypeOK /\ [Next]_vars => TypeOK'
  <2>1. TypeOK /\ UNCHANGED vars => TypeOK'
    BY DEF TypeOK, vars, server, kernel, clients
  <2>2. QED BY <2>1, TypeServer, TypeClients DEF Next
<1>3. QED BY <1>1, <1>2, PTL DEF Spec

-----------------------------------------------------------------------------
(* Whoever the server and a client wait for, it is each other: no step of  *)
(* the server, nor of that client but its end, is possible.                *)
LEMMA NobodyMoves ==
  ASSUME TypeOK, NEW fd \in Fd, Standstill(fd), Next
  PROVE  UNCHANGED server /\ (Standstill(fd)' \/ conn'[fd] # "open")
<1>1. /\ to # << >> /\ Head(to) = fd /\ conn[fd] = "open"
      /\ ~Fits(unread[fd], msg.size)
      /\ sending[fd] # NoMessage /\ ~Fits(inq[fd], Size[sending[fd]])
  BY DEF Standstill
<1>2. ~ServerNext
  <2>1. ~Send(fd) /\ ~SendAfterFin(fd) /\ ~SendFails(fd)
    BY <1>1 DEF Send, SendAfterFin, SendFails
  <2>2. ~SendStep
    BY <1>1, <2>1 DEF SendStep
  <2>3. ~Scanning
    BY <1>1 DEF Scanning
  <2>4. QED
    BY <2>2, <2>3
    DEF ServerNext, ServerRuns, ServerPoll, PollFails, AcceptFails, AtListener, Accept,
        Terminate, HandleMessage
<1>3. ASSUME UNCHANGED <<to, msg, conn[fd], unread[fd], inq[fd], sending[fd]>>
      PROVE  Standstill(fd)'
  BY <1>1, <1>3 DEF Standstill, Fits
<1>4. CASE Connect
  BY <1>3, <1>4 DEF Connect, server, clients
<1>5. ASSUME NEW c \in Fd, c # fd, ClientNext(c)
      PROVE  UNCHANGED server /\ Standstill(fd)'
  <2>1. /\ UNCHANGED server
        /\ conn'[fd] = conn[fd] /\ unread'[fd] = unread[fd]
        /\ inq'[fd] = inq[fd] /\ sending'[fd] = sending[fd]
    BY <1>5 DEF ClientNext, ClientPoll, ClientReads, ClientTakesInput, ClientSends,
                ClientLeaves, kernel, TypeOK
  <2>2. QED BY <1>3, <2>1 DEF server
<1>6. CASE ClientNext(fd)
  <2>1. ~Looping(fd) /\ ~ClientSends(fd)
    BY <1>1 DEF Looping, ClientSends
  <2>2. ClientLeaves(fd)
    BY <1>6, <2>1 DEF ClientNext, ClientPoll, ClientReads, ClientTakesInput, AtInput
  <2>3. UNCHANGED server /\ conn'[fd] \in {"rst", "fin"}
    BY <2>2 DEF ClientLeaves, TypeOK
  <2>4. QED BY <2>3
<1>7. QED BY <1>2, <1>4, <1>5, <1>6 DEF Next

(* Once the server and a client wait for each other in sendall, the server *)
(* takes no further step, whatever the others do, until that one client's  *)
(* process ends: for any number of clients and any sizes of buffers and    *)
(* messages.                                                               *)
THEOREM NothingEndsAStandstill == Spec => StandstillLasts
<1>1. TypeOK /\ [Next]_vars =>
        [\A fd \in Fd : Standstill(fd) =>
           UNCHANGED server /\ (Standstill(fd)' \/ conn'[fd] # "open")]_vars
  BY NobodyMoves
<1>2. QED BY <1>1, TypeCorrect, PTL DEF Spec, StandstillLasts
=============================================================================
