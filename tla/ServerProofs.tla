---------------------------- MODULE ServerProofs ----------------------------
(***************************************************************************)
(* The server's safety for every number of rooms, room size, descriptor    *)
(* limit, backlog, buffer and message count: first its tables and lists,   *)
(* then its poll array and what poll() reported.                           *)
(***************************************************************************)
EXTENDS ServerProperties, ArraysTheorems, SequenceTheorems, FiniteSetTheorems

-----------------------------------------------------------------------------
(***************************************************************************)
(* What entering and leaving do to one room.                               *)
(***************************************************************************)

(* In a room without repetitions the loop of room_remove_user stops at the *)
(* user's slot.                                                            *)
LEMMA SlotOfMember ==
  ASSUME NEW S, NEW room \in Seq(S), NEW u, NoRepeats(room), Occurs(u, room)
  PROVE  SlotOf(room, u) \in 1 .. Len(room) /\ room[SlotOf(room, u)] = u
<1> DEFINE First(k) == /\ k <= Len(room) => room[k] = u
                       /\ \A j \in 1 .. (k - 1) : room[j] # u
<1>1. PICK k \in 1 .. Len(room) : room[k] = u
  BY DEF Occurs
<1>2. k \in 1 .. (Len(room) + 1) /\ First(k)
  BY <1>1 DEF NoRepeats
<1>3. SlotOf(room, u) \in 1 .. (Len(room) + 1) /\ First(SlotOf(room, u))
  BY <1>2 DEF SlotOf
<1>4. SlotOf(room, u) <= Len(room)
  BY <1>1, <1>3
<1>5. QED BY <1>3, <1>4

(* Leaving a room takes out that user and nobody else.                     *)
LEMMA RemoveUser ==
  ASSUME NEW S, NEW room \in Seq(S), NEW u, NoRepeats(room), Occurs(u, room)
  PROVE  /\ room_remove_user(room, u) \in Seq(S)
         /\ Len(room_remove_user(room, u)) = Len(room) - 1
         /\ NoRepeats(room_remove_user(room, u))
         /\ \A v : Occurs(v, room_remove_user(room, u)) <=> Occurs(v, room) /\ v # u
<1>1. SlotOf(room, u) \in 1 .. Len(room) /\ room[SlotOf(room, u)] = u
  BY SlotOfMember
<1>2. NoRepeats(room_remove_user(room, u))
  BY <1>1, SwapRemoveNoRepeats DEF room_remove_user
<1>3. \A v : Occurs(v, room_remove_user(room, u)) <=> Occurs(v, room) /\ v # u
  BY <1>1, SwapRemoveOccurs DEF room_remove_user
<1>4. /\ room_remove_user(room, u) \in Seq(S)
      /\ Len(room_remove_user(room, u)) = Len(room) - 1
  BY <1>1, SwapRemoveShape DEF room_remove_user
<1>5. QED BY <1>2, <1>3, <1>4

-----------------------------------------------------------------------------
(***************************************************************************)
(* Types.                                                                  *)
(***************************************************************************)
(* The messages there can be only become more as clients send.             *)
LEMMA MessagesGrow ==
  ASSUME nsent \in Nat, nsent' \in Nat, nsent <= nsent'
  PROVE  /\ SentMessages \subseteq SentMessages'
         /\ Requests(1 .. nsent, RoomRequests, NewNames)
              \subseteq Requests(1 .. nsent', RoomRequests, NewNames)
<1>1. 1 .. nsent \subseteq 1 .. nsent'
  OBVIOUS
<1>2. SentMessages \subseteq SentMessages'
  BY <1>1 DEF SentMessages, ServerMessages
<1>3. QED
  BY <1>1, <1>2 DEF Requests, ChatRequest

LEMMA MessagesSame ==
  ASSUME UNCHANGED nsent PROVE SentMessages' = SentMessages
BY DEF SentMessages

(* A reply about a room that was asked for, or none, is a message.         *)
LEMMA ReplyIsMessage ==
  ASSUME NEW reply \in Replies, NEW r \in RoomId \cup RoomRequests \cup {InvalidRoom}
  PROVE  ReplyMessage(reply, r) \in SentMessages
BY DEF ReplyMessage, SentMessages, ServerMessages

(* So is a chat message made of a request.                                 *)
LEMMA ChatIsMessage ==
  ASSUME NEW id \in 1 .. nsent, NEW fd \in Fd, NEW name \in Names, NEW r \in RoomId
  PROVE  ChatMessage(id, fd, name, r) \in SentMessages
BY DEF ChatMessage, SentMessages, ServerMessages

(* The variables have their types at the start.                            *)
LEMMA TypeInit == Init => TypeOK
<1> SUFFICES ASSUME Init PROVE TypeOK
  OBVIOUS
<1> USE DEF Init
<1>1. pollfds \in Seq(Pollfd(PolledFd))
  BY DEF NewEntry, Pollfd, PolledFd
<1>2. rooms \in [RoomId -> Seq(Fd)]
  BY DEF room_array_init
<1>3. users \in [DOMAIN users -> [room : RoomId \cup {InvalidRoom}, name : Names]]
  BY DEF Names
<1>4. DOMAIN users \subseteq Fd
  OBVIOUS
<1>5. QED
  BY <1>1, <1>2, <1>3, <1>4, PollfdArrayAssumption, ServerAssumption
  DEF TypeOK, Statuses


(* What the clients do keeps the types.                                    *)
LEMMA TypeClient == TypeOK /\ ClientNext => TypeOK'
<1> SUFFICES ASSUME TypeOK, ClientNext PROVE TypeOK'
  OBVIOUS
<1> USE ServerAssumption DEF vars, process, kernel
<1>1. CASE Connect
  <2>1. backlog' \in 0 .. BacklogLimit /\ nconn' \in 0 .. MaxConn
    BY <1>1 DEF Connect, TypeOK
  <2>2. SentMessages' = SentMessages
    BY <1>1, MessagesSame DEF Connect
  <2>3. QED BY <1>1, <2>1, <2>2 DEF Connect, TypeOK
<1>2. ASSUME NEW fd \in Fd, ClientSend(fd) PROVE TypeOK'
  <2>1. nsent \in 0 .. MaxSent /\ nsent' = nsent + 1 /\ nsent' \in 0 .. MaxSent
    <3>1. nsent \in 0 .. MaxSent
      BY DEF TypeOK
    <3>2. nsent < MaxSent /\ nsent' = nsent + 1
      BY <1>2 DEF ClientSend
    <3>3. QED BY <3>1, <3>2
  <2> DEFINE R == Requests(1 .. nsent, RoomRequests, NewNames)
             Rn == Requests(1 .. nsent', RoomRequests, NewNames)
  <2>2. SentMessages \subseteq SentMessages' /\ R \subseteq Rn
    BY <2>1, MessagesGrow
  <2>3. Requests({nsent'}, RoomRequests, NewNames) \subseteq Rn
    BY <2>1 DEF Requests
  <2> HIDE DEF R, Rn
  <2>4. inbox' \in [Fd -> Seq(Rn)]
    <3>1. inbox \in [Fd -> Seq(Rn)]
      BY <2>2, SeqMonotonic DEF TypeOK, R
    <3>2. PICK m \in Requests({nsent'}, RoomRequests, NewNames) :
            inbox' = [inbox EXCEPT ![fd] = Append(@, m)]
      BY <1>2 DEF ClientSend
    <3>3. m \in Rn
      BY <2>3
    <3>4. QED BY <3>1, <3>2, <3>3
  <2>5. outbox' \in [Fd -> Seq(SentMessages')]
    BY <1>2, <2>2, SeqMonotonic DEF ClientSend, TypeOK
  <2>6. QED BY <1>2, <2>1, <2>2, <2>4, <2>5 DEF ClientSend, TypeOK, Rn
<1>3. ASSUME NEW fd \in Fd, ClientRead(fd) PROVE TypeOK'
  <2>1. unread' \in [Fd -> 0 .. SockBuf]
    <3>1. unread \in [Fd -> 0 .. SockBuf]
      BY DEF TypeOK
    <3>2. unread[fd] > 0 /\ unread' = [unread EXCEPT ![fd] = @ - 1]
      BY <1>3 DEF ClientRead
    <3>3. unread[fd] - 1 \in 0 .. SockBuf
      BY <3>1, <3>2, ServerAssumption
    <3>4. QED BY <3>1, <3>2, <3>3
  <2>2. SentMessages' = SentMessages
    BY <1>3, MessagesSame DEF ClientRead
  <2>3. QED BY <1>3, <2>1, <2>2 DEF ClientRead, TypeOK
<1>4. ASSUME NEW fd \in Fd, ClientClose(fd) PROVE TypeOK'
  <2>1. /\ conn' \in [Fd -> {"free", "open", "fin", "rst"}]
        /\ unread' \in [Fd -> 0 .. SockBuf]
    <3>1. conn \in [Fd -> {"free", "open", "fin", "rst"}] /\ unread \in [Fd -> 0 .. SockBuf]
      BY DEF TypeOK
    <3>2. PICK left \in {"fin", "rst"} : conn' = [conn EXCEPT ![fd] = left]
      BY <1>4 DEF ClientClose
    <3>3. unread' = [unread EXCEPT ![fd] = 0] /\ 0 \in 0 .. SockBuf
      BY <1>4, ServerAssumption DEF ClientClose
    <3>4. QED BY <3>1, <3>2, <3>3
  <2>2. outbox' \in [Fd -> Seq(SentMessages)]
    BY <1>4 DEF ClientClose, TypeOK
  <2>3. SentMessages' = SentMessages
    BY <1>4, MessagesSame DEF ClientClose
  <2>4. QED BY <1>4, <2>1, <2>2, <2>3 DEF ClientClose, TypeOK
<1>5. QED BY <1>1, <1>2, <1>3, <1>4 DEF ClientNext


(* A request says what its type promises.                                  *)
LEMMA RequestFields ==
  ASSUME NEW Ids, NEW m \in Requests(Ids, RoomRequests, NewNames)
  PROVE  /\ m.type = "CHAT" => m.id \in Ids
         /\ m.type = "JOIN" => m.room \in RoomRequests
         /\ m.type = "NAME" => m.name \in NewNames
BY DEF Requests, ChatRequest, JoinRequest, NameRequest

(* Appending to the poll array, deleting from it and polling keep its type. *)
LEMMA ArrayTypes ==
  ASSUME TypeOK
  PROVE  /\ \A fd \in Fd : pollfd_array_append(fd) =>
              pollfds' \in Seq(Pollfd(PolledFd)) /\ capacity' \in Nat
         /\ pollfd_array_delete(i) =>
              pollfds' \in Seq(Pollfd(PolledFd)) /\ capacity' \in Nat
         /\ Poll => pollfds' \in Seq(Pollfd(PolledFd))
<1>1. pollfds \in Seq(Pollfd(PolledFd)) /\ capacity \in Nat
  BY DEF TypeOK
<1>2. ASSUME NEW fd \in Fd, pollfd_array_append(fd)
      PROVE  pollfds' \in Seq(Pollfd(PolledFd)) /\ capacity' \in Nat
  <2>1. NewEntry(fd) \in Pollfd(PolledFd) /\ StaleEntries \subseteq Pollfd(PolledFd)
    BY DEF NewEntry, StaleEntries, Pollfd, PolledFd
  <2>2. QED BY <1>1, <1>2, <2>1 DEF pollfd_array_append
<1>3. ASSUME pollfd_array_delete(i)
      PROVE  pollfds' \in Seq(Pollfd(PolledFd)) /\ capacity' \in Nat
  BY <1>1, <1>3, SwapRemoveType DEF pollfd_array_delete
<1>4. ASSUME Poll PROVE pollfds' \in Seq(Pollfd(PolledFd))
  <2>1. \A fd : PollResult(fd) \in SUBSET Revents
    BY DEF PollResult
  <2>2. DOMAIN pollfds = 1 .. Len(pollfds) /\ Len(pollfds) \in Nat
    BY <1>1
  <2>3. ASSUME NEW k \in 1 .. Len(pollfds)
        PROVE  [pollfds[k] EXCEPT !.revents = PollResult(pollfds[k].fd)]
                 \in Pollfd(PolledFd)
    <3>1. pollfds[k] \in Pollfd(PolledFd)
      BY <1>1
    <3>2. QED BY <2>1, <3>1 DEF Pollfd
  <2>4. QED BY <1>4, <2>2, <2>3 DEF Poll
<1>5. QED BY <1>2, <1>3, <1>4

(* So do the rooms' when a user leaves its room.                           *)
LEMMA RoomsWithoutType ==
  ASSUME rooms \in [RoomId -> Seq(Fd)], NEW fd
  PROVE  RoomsWithout(fd) \in [RoomId -> Seq(Fd)]
<1>1. \A r \in RoomId : room_remove_user(rooms[r], fd) \in Seq(Fd)
  BY SwapRemoveType DEF room_remove_user
<1>2. QED BY <1>1 DEF RoomsWithout


(* A client that is cleared up.                                            *)
LEMMA TypeTermination ==
  ASSUME TypeOK, NEW fd, handle_client_termination(fd)
  PROVE  TypeOK'
<1> USE DEF handle_client_termination, vars, process, kernel
<1>1. pollfds' \in Seq(Pollfd(PolledFd)) /\ capacity' \in Nat
  BY ArrayTypes
<1>2. SentMessages' = SentMessages
  BY MessagesSame
<1>3. CASE user_table_find(users, fd)
  <2>1. rooms' \in [RoomId -> Seq(Fd)]
    BY <1>3, RoomsWithoutType DEF TypeOK
  <2>2. /\ DOMAIN users' \subseteq Fd
        /\ users' \in [DOMAIN users' -> [room : RoomId \cup {InvalidRoom}, name : Names]]
    BY <1>3 DEF TypeOK, user_table_delete
  <2>3. /\ conn' \in [Fd -> {"free", "open", "fin", "rst"}]
        /\ unread' \in [Fd -> 0 .. SockBuf]
        /\ inbox' \in [Fd -> Seq(Requests(1 .. nsent, RoomRequests, NewNames))]
        /\ outbox' \in [Fd -> Seq(SentMessages)]
    <3>1. /\ conn \in [Fd -> {"free", "open", "fin", "rst"}]
          /\ unread \in [Fd -> 0 .. SockBuf]
          /\ inbox \in [Fd -> Seq(Requests(1 .. nsent, RoomRequests, NewNames))]
          /\ outbox \in [Fd -> Seq(SentMessages)]
      BY DEF TypeOK
    <3>2. conn' = [conn EXCEPT ![fd] = "free"]
      BY <1>3
    <3>3. unread' = [unread EXCEPT ![fd] = 0]
      BY <1>3
    <3>4. unread' \in [Fd -> 0 .. SockBuf]
      <4>1. 0 \in 0 .. SockBuf
        BY ServerAssumption
      <4>2. QED BY <3>1, <3>3, <4>1
    <3>5. inbox' = [inbox EXCEPT ![fd] = << >>] /\ outbox' = [outbox EXCEPT ![fd] = << >>]
      BY <1>3
    <3>6. inbox' \in [Fd -> Seq(Requests(1 .. nsent, RoomRequests, NewNames))]
      BY <3>1, <3>5, EmptySeq
    <3>7. outbox' \in [Fd -> Seq(SentMessages)]
      BY <3>1, <3>5, EmptySeq
    <3>8. QED BY <3>1, <3>2, <3>4, <3>6, <3>7
  <2>4. QED BY <1>1, <1>2, <1>3, <2>1, <2>2, <2>3 DEF TypeOK
<1>4. CASE ~user_table_find(users, fd)
  BY <1>1, <1>2, <1>4 DEF TypeOK, Exit, Statuses
<1>5. QED BY <1>3, <1>4

(* A message that is handled: the tables, and what is to be sent.          *)
LEMMA TypeHandlers ==
  ASSUME TypeOK, NEW fd \in DOMAIN users,
         NEW m \in Requests(1 .. nsent, RoomRequests, NewNames),
         \/ m.type = "CHAT" /\ handle_chat_message(fd, m)
         \/ m.type = "NAME" /\ handle_name_message(fd, m)
         \/ m.type = "JOIN" /\ handle_join_message(fd, m)
  PROVE  /\ users' \in [DOMAIN users -> [room : RoomId \cup {InvalidRoom}, name : Names]]
         /\ rooms' \in [RoomId -> Seq(Fd)]
         /\ msg' \in SentMessages
         /\ to' \in Seq(Fd)
<1>1. /\ fd \in Fd /\ users[fd].room \in RoomId \cup {InvalidRoom}
      /\ users[fd].name \in Names
      /\ rooms \in [RoomId -> Seq(Fd)]
      /\ users \in [DOMAIN users -> [room : RoomId \cup {InvalidRoom}, name : Names]]
  BY DEF TypeOK
<1>2. ASSUME NEW reply \in Replies, NEW r \in RoomId \cup RoomRequests \cup {InvalidRoom},
             Reply(fd, reply, r)
      PROVE  msg' \in SentMessages /\ to' \in Seq(Fd)
  BY <1>1, <1>2, ReplyIsMessage DEF Reply
<1>3. CASE m.type = "CHAT" /\ handle_chat_message(fd, m)
  <2>1. CASE users[fd].room = InvalidRoom
    BY <1>1, <1>2, <1>3, <2>1 DEF handle_chat_message, Replies
  <2>2. CASE users[fd].room # InvalidRoom
    <3>1. users[fd].room \in RoomId /\ m.id \in 1 .. nsent
      BY <1>1, <1>3, <2>2, RequestFields
    <3>2. msg' \in SentMessages
      BY <1>1, <1>3, <2>2, <3>1, ChatIsMessage DEF handle_chat_message
    <3>3. QED BY <1>1, <1>3, <2>2, <3>1, <3>2 DEF handle_chat_message
  <2>3. QED BY <2>1, <2>2
<1>4. CASE m.type = "NAME" /\ handle_name_message(fd, m)
  <2>1. m.name \in Names
    BY <1>4, RequestFields DEF Names
  <2>2. Reply(fd, "named", InvalidRoom) /\ rooms' = rooms
    BY <1>4 DEF handle_name_message
  <2>3. users' \in [DOMAIN users -> [room : RoomId \cup {InvalidRoom}, name : Names]]
    BY <1>1, <1>4, <2>1 DEF handle_name_message
  <2>4. QED BY <1>1, <1>2, <2>2, <2>3 DEF Replies
<1>5. CASE m.type = "JOIN" /\ handle_join_message(fd, m)
  <2>0. m.room \in RoomRequests
    BY <1>5, RequestFields
  <2>1. CASE JoinNoSuchRoom(fd, m.room)
    BY <1>1, <1>2, <2>0, <2>1 DEF JoinNoSuchRoom, Replies
  <2>2. CASE JoinSameRoom(fd, m.room)
    BY <1>1, <1>2, <2>0, <2>2 DEF JoinSameRoom, Replies
  <2>3. CASE JoinFullRoom(fd, m.room)
    <3>1. rooms' \in [RoomId -> Seq(Fd)]
      BY <1>1, <2>3, RoomsWithoutType DEF JoinFullRoom
    <3>2. Reply(fd, "full", m.room)
      BY <2>3 DEF JoinFullRoom
    <3>3. users' \in [DOMAIN users -> [room : RoomId \cup {InvalidRoom}, name : Names]]
      BY <1>1, <2>3 DEF JoinFullRoom
    <3>4. QED BY <1>2, <2>0, <3>1, <3>2, <3>3 DEF Replies
  <2>4. CASE JoinRoom(fd, m.room)
    <3>1. m.room \in RoomId
      BY <2>4 DEF JoinRoom, RoomExists
    <3>2. rooms' \in [RoomId -> Seq(Fd)]
      <4>1. RoomsWithout(fd) \in [RoomId -> Seq(Fd)]
        BY <1>1, RoomsWithoutType
      <4>2. QED BY <1>1, <2>4, <3>1, <4>1 DEF JoinRoom, room_add_user
    <3>3. Reply(fd, "joined", m.room)
      BY <2>4 DEF JoinRoom
    <3>4. users' \in [DOMAIN users -> [room : RoomId \cup {InvalidRoom}, name : Names]]
      BY <1>1, <2>4, <3>1 DEF JoinRoom
    <3>5. QED BY <1>2, <2>0, <3>2, <3>3, <3>4 DEF Replies
  <2>5. QED BY <1>5, <2>1, <2>2, <2>3, <2>4 DEF handle_join_message
<1>6. QED BY <1>3, <1>4, <1>5


(* What the server does keeps the types.                                   *)
LEMMA TypeServer == TypeOK /\ ServerNext => TypeOK'
<1> SUFFICES ASSUME TypeOK, ServerNext PROVE TypeOK'
  OBVIOUS
<1> USE DEF vars, process, kernel, arrays
<1>1. CASE Poll
  <2>1. pollfds' \in Seq(Pollfd(PolledFd))
    BY <1>1, ArrayTypes
  <2>2. SentMessages' = SentMessages
    BY <1>1, MessagesSame DEF Poll
  <2>3. QED BY <1>1, <2>1, <2>2 DEF Poll, TypeOK
<1>2. CASE Skip
  <2>1. SentMessages' = SentMessages
    BY <1>2, MessagesSame DEF Skip
  <2>2. QED BY <1>2, <2>1 DEF Skip, TypeOK
<1>3. CASE AcceptFails
  <2>1. SentMessages' = SentMessages
    BY <1>3, MessagesSame DEF AcceptFails
  <2>2. /\ UNCHANGED <<arrays, i, users, rooms, kernel, nconn, nsent>>
        /\ msg' = NoMessage /\ to' = << >> /\ status' \in Statuses
    BY <1>3 DEF AcceptFails, Exit, Statuses
  <2>3. QED BY <2>1, <2>2 DEF TypeOK
<1>4. CASE HandleHangUp
  BY <1>4, TypeTermination DEF HandleHangUp
<1>5. CASE RecvFails
  <2>1. SentMessages' = SentMessages
    BY <1>5, MessagesSame DEF RecvFails
  <2>2. QED BY <1>5, <2>1 DEF RecvFails, Exit, TypeOK, Statuses
<1>6. CASE SendStep
  <2> DEFINE fd == Head(to)
  <2>0. /\ to # << >> /\ to \in Seq(Fd) /\ msg \in SentMessages /\ status \in Statuses
        /\ conn \in [Fd -> {"free", "open", "fin", "rst"}]
        /\ outbox \in [Fd -> Seq(SentMessages)]
        /\ unread \in [Fd -> 0 .. SockBuf]
    BY <1>6 DEF SendStep, TypeOK
  <2>1. /\ fd \in Fd /\ Tail(to) \in Seq(Fd)
        /\ Len(Tail(to)) = Len(to) - 1
    BY <2>0, HeadTailProperties
  <2>2. SentMessages' = SentMessages
    BY <1>6, MessagesSame DEF SendStep
  <2>3. NextReceiver => /\ to' \in Seq(Fd) /\ msg' \in SentMessages \cup {NoMessage}
                        /\ Len(to') > 0 => msg' \in SentMessages
                        /\ status' \in Statuses
    <3>1. Len(to) \in Nat
      BY <2>0
    <3>2. ASSUME NextReceiver PROVE Len(to') > 0 => msg' = msg
      BY <2>1, <3>1, <3>2 DEF NextReceiver
    <3>3. QED BY <2>0, <2>1, <3>2 DEF NextReceiver
  <2>4. UNCHANGED <<arrays, i, users, rooms, backlog, inbox, nconn, nsent>>
    BY <1>6 DEF SendStep
  <2>5. CASE Send(fd)
    <3>1. unread' \in [Fd -> 0 .. SockBuf]
      <4>1. unread[fd] + 1 \in 0 .. SockBuf
        BY <2>0, <2>1, <2>5, ServerAssumption DEF Send
      <4>2. QED BY <2>0, <2>1, <2>5, <4>1 DEF Send
    <3>2. outbox' \in [Fd -> Seq(SentMessages)]
      <4>1. Append(outbox[fd], msg) \in Seq(SentMessages)
        BY <2>0, <2>1
      <4>2. QED BY <2>0, <2>5, <4>1 DEF Send
    <3>3. QED BY <2>2, <2>3, <2>4, <2>5, <3>1, <3>2 DEF Send, TypeOK
  <2>6. CASE SendAfterFin(fd)
    <3>1. conn' \in [Fd -> {"free", "open", "fin", "rst"}]
      BY <2>0, <2>6 DEF SendAfterFin
    <3>2. QED BY <2>2, <2>3, <2>4, <2>6, <3>1 DEF SendAfterFin, TypeOK
  <2>7. CASE SendFails(fd)
    <3>1. \A reason \in Statuses : Exit(reason) =>
            /\ to' \in Seq(Fd) /\ msg' \in SentMessages \cup {NoMessage}
            /\ Len(to') > 0 => msg' \in SentMessages
            /\ status' \in Statuses
      BY DEF Exit
    <3>2. /\ to' \in Seq(Fd) /\ msg' \in SentMessages \cup {NoMessage}
          /\ Len(to') > 0 => msg' \in SentMessages
          /\ status' \in Statuses
      BY <2>3, <2>7, <3>1 DEF SendFails, Statuses
    <3>3. QED BY <2>2, <2>4, <2>7, <3>2 DEF SendFails, TypeOK
  <2>8. QED BY <1>6, <2>5, <2>6, <2>7 DEF SendStep
<1>7. ASSUME NEW fd \in Fd, AcceptClient(fd) PROVE TypeOK'
  <2>1. pollfds' \in Seq(Pollfd(PolledFd)) /\ capacity' \in Nat
    BY <1>7, ArrayTypes DEF AcceptClient
  <2>2. conn' \in [Fd -> {"free", "open", "fin", "rst"}]
    BY <1>7 DEF AcceptClient, TypeOK
  <2>3. backlog' \in 0 .. BacklogLimit
    <3>1. backlog \in 0 .. BacklogLimit
      BY DEF TypeOK
    <3>2. backlog > 0 /\ backlog' = backlog - 1
      BY <1>7 DEF AcceptClient, AtListener
    <3>3. QED BY <3>1, <3>2, ServerAssumption
  <2>4. SentMessages' = SentMessages
    BY <1>7, MessagesSame DEF AcceptClient
  <2>5. CASE user_table_find(users, fd)
    <3>1. UNCHANGED <<i, users, rooms, inbox, outbox, unread, nconn, nsent>>
      BY <1>7, <2>5 DEF AcceptClient
    <3>2. status' = "duplicate_user" /\ msg' = NoMessage /\ to' = << >>
      BY <1>7, <2>5 DEF AcceptClient, Exit
    <3>3. to' \in Seq(Fd) /\ Len(to') = 0 /\ status' \in Statuses
      BY <3>2 DEF Statuses
    <3>4. QED BY <2>1, <2>2, <2>3, <2>4, <3>1, <3>2, <3>3 DEF TypeOK
  <2>6. CASE ~user_table_find(users, fd)
    <3>1. NewUser \in [room : RoomId \cup {InvalidRoom}, name : Names]
      BY DEF NewUser, Names
    <3>2. users' = user_table_add(users, fd)
      BY <1>7, <2>6 DEF AcceptClient
    <3>3. /\ DOMAIN users' \subseteq Fd
          /\ users' \in [DOMAIN users' -> [room : RoomId \cup {InvalidRoom}, name : Names]]
      BY <3>1, <3>2 DEF user_table_add, TypeOK
    <3>4. /\ i' = i + 1
          /\ UNCHANGED <<msg, to, status, rooms, inbox, outbox, unread, nconn, nsent>>
      BY <1>7, <2>6 DEF AcceptClient
    <3>5. QED BY <2>1, <2>2, <2>3, <2>4, <3>3, <3>4, SMTT(30) DEF TypeOK
  <2>7. QED BY <2>5, <2>6
<1>8. ASSUME NEW fd \in Fd, HandleEof(fd) PROVE TypeOK'
  BY <1>8, TypeTermination DEF HandleEof
<1>9. ASSUME NEW fd \in Fd, HandleMessage(fd) PROVE TypeOK'
  <2> DEFINE R == Requests(1 .. nsent, RoomRequests, NewNames)
  <2>1. inbox[fd] \in Seq(R) /\ inbox[fd] # << >>
    BY <1>9 DEF HandleMessage, TypeOK
  <2>2. Received(fd) \in R /\ Tail(inbox[fd]) \in Seq(R)
    <3> HIDE DEF R
    <3>1. Head(inbox[fd]) \in R /\ Tail(inbox[fd]) \in Seq(R)
      BY <2>1, HeadTailProperties
    <3>2. QED BY <3>1 DEF Received
  <2> HIDE DEF R
  <2>3. inbox' \in [Fd -> Seq(R)]
    BY <1>9, <2>2 DEF HandleMessage, TypeOK, R
  <2>4. SentMessages' = SentMessages
    BY <1>9, MessagesSame DEF HandleMessage
  <2>5. CASE user_table_find(users, fd)
    <3>1. fd \in DOMAIN users
      BY <2>5 DEF user_table_find
    <3>2. /\ users' \in [DOMAIN users -> [room : RoomId \cup {InvalidRoom}, name : Names]]
          /\ rooms' \in [RoomId -> Seq(Fd)]
          /\ msg' \in SentMessages
          /\ to' \in Seq(Fd)
      BY <1>9, <2>2, <2>5, <3>1, TypeHandlers DEF HandleMessage, R
    <3>3. DOMAIN users' = DOMAIN users
      BY <3>2
    <3>4. i' = i + 1 /\ UNCHANGED status
      BY <1>9, <2>5 DEF HandleMessage
    <3>5. UNCHANGED <<arrays, backlog, conn, outbox, unread, nconn, nsent>>
      BY <1>9 DEF HandleMessage
    <3>6. QED BY <2>3, <2>4, <3>2, <3>3, <3>4, <3>5, SMTT(30) DEF TypeOK, R
  <2>6. CASE ~user_table_find(users, fd)
    BY <1>9, <2>3, <2>4, <2>6 DEF HandleMessage, Exit, TypeOK, Statuses, R
  <2>7. QED BY <2>5, <2>6
<1>10. CASE PollFails
  <2>1. SentMessages' = SentMessages
    BY <1>10, MessagesSame DEF PollFails
  <2>2. QED BY <1>10, <2>1 DEF PollFails, Exit, TypeOK, Statuses
<1>11. QED
  BY <1>1, <1>2, <1>3, <1>4, <1>5, <1>6, <1>7, <1>8, <1>9, <1>10 DEF ServerNext, ServerRuns

(* The server's variables always have their types.                         *)
THEOREM TypeCorrect == Spec => []TypeOK
<1>1. TypeOK /\ UNCHANGED vars => TypeOK'
  <2>1. UNCHANGED vars => SentMessages' = SentMessages
    BY MessagesSame DEF vars
  <2>2. QED BY <2>1 DEF TypeOK, vars, process, kernel
<1>2. QED BY <1>1, TypeInit, TypeClient, TypeServer, PTL DEF Spec, Next


-----------------------------------------------------------------------------
(***************************************************************************)
(* The user table has exactly the open descriptors.  The table and the     *)
(* kernel change together in AcceptClient and handle_client_termination;   *)
(* what else happens to a connection leaves it open to the server.         *)
(***************************************************************************)
LEMMA ConnectionsStep == TypeOK /\ UsersAreConnections /\ [Next]_vars => UsersAreConnections'
<1> SUFFICES ASSUME TypeOK, UsersAreConnections, [Next]_vars PROVE UsersAreConnections'
  OBVIOUS
<1> USE DEF UsersAreConnections
<1>0. conn \in [Fd -> {"free", "open", "fin", "rst"}]
  BY DEF TypeOK
<1>1. CASE UNCHANGED <<users, conn>>
  BY <1>1
<1>2. ASSUME NEW fd \in Fd, AcceptClient(fd) PROVE UsersAreConnections'
  <2>1. fd \notin DOMAIN users /\ conn' = [conn EXCEPT ![fd] = "open"]
    BY <1>2 DEF AcceptClient
  <2>2. users' = user_table_add(users, fd)
    BY <1>2, <2>1 DEF AcceptClient, user_table_find
  <2>3. DOMAIN users' = DOMAIN users \cup {fd}
    BY <2>2 DEF user_table_add
  <2>4. QED BY <1>0, <2>1, <2>3
<1>3. ASSUME NEW fd, handle_client_termination(fd) PROVE UsersAreConnections'
  <2>1. CASE user_table_find(users, fd)
    <3>1. users' = user_table_delete(users, fd) /\ conn' = [conn EXCEPT ![fd] = "free"]
      BY <1>3, <2>1 DEF handle_client_termination
    <3>2. DOMAIN users' = DOMAIN users \ {fd}
      BY <3>1 DEF user_table_delete
    <3>3. QED BY <1>0, <3>1, <3>2
  <2>2. CASE ~user_table_find(users, fd)
    BY <1>1, <1>3, <2>2 DEF handle_client_termination, kernel
  <2>3. QED BY <2>1, <2>2
<1>4. ASSUME NEW fd \in Fd, HandleMessage(fd) PROVE UsersAreConnections'
  <2>1. conn' = conn
    BY <1>4 DEF HandleMessage
  <2>2. CASE user_table_find(users, fd)
    <3>1. DOMAIN users' = DOMAIN users
      BY <1>4, <2>2 DEF HandleMessage, handle_chat_message, handle_name_message,
           handle_join_message, JoinNoSuchRoom, JoinSameRoom, JoinFullRoom, JoinRoom
    <3>2. QED BY <2>1, <3>1
  <2>3. CASE ~user_table_find(users, fd)
    BY <1>1, <1>4, <2>1, <2>3 DEF HandleMessage
  <2>4. QED BY <2>2, <2>3
<1>5. ASSUME NEW fd \in Fd, ClientClose(fd) PROVE UsersAreConnections'
  <2>1. users' = users /\ conn[fd] = "open"
    BY <1>5 DEF ClientClose, process
  <2>2. \E c \in {"fin", "rst"} : conn' = [conn EXCEPT ![fd] = c]
    BY <1>5 DEF ClientClose
  <2>3. QED BY <1>0, <2>1, <2>2
<1>6. CASE SendStep
  <2>1. users' = users
    BY <1>6 DEF SendStep
  <2>2. CASE SendAfterFin(Head(to))
    <3>1. PICK c \in {"fin", "rst"} : conn' = [conn EXCEPT ![Head(to)] = c]
      BY <2>2 DEF SendAfterFin
    <3>2. conn[Head(to)] = "fin"
      BY <2>2 DEF SendAfterFin
    <3>3. QED BY <1>0, <2>1, <3>1, <3>2
  <2>3. CASE Send(Head(to)) \/ SendFails(Head(to))
    BY <1>1, <2>1, <2>3 DEF Send, SendFails
  <2>4. QED BY <1>6, <2>2, <2>3 DEF SendStep
<1>7. ASSUME Poll \/ PollFails \/ Skip \/ AcceptFails \/ RecvFails \/ Connect
             \/ (\E fd \in Fd : ClientSend(fd) \/ ClientRead(fd)) \/ UNCHANGED vars
      PROVE  UNCHANGED <<users, conn>>
  BY <1>7 DEF Poll, PollFails, Skip, AcceptFails, RecvFails, Connect, ClientSend, ClientRead,
       vars, process, kernel
<1>8. QED
  BY <1>1, <1>2, <1>3, <1>4, <1>5, <1>6, <1>7
  DEF Next, ServerNext, ServerRuns, ClientNext, HandleHangUp, HandleEof

LEMMA ConnectionsInit == Init => UsersAreConnections
BY DEF Init, UsersAreConnections

(* The user table always has exactly the descriptors accept() returned and *)
(* close() has not released, also when a resize moved the poll array.      *)
THEOREM UsersMatchConnections == Spec => []UsersAreConnections
BY ConnectionsInit, ConnectionsStep, TypeCorrect, PTL DEF Spec


-----------------------------------------------------------------------------
(***************************************************************************)
(* The user table and the room array agree.                                *)
(***************************************************************************)

(* When a user leaves its room, if it is in one, every room loses that     *)
(* user and nobody else.                                                   *)
LEMMA LeaveRoom ==
  ASSUME TypeOK, RoomConsistency, NEW fd \in DOMAIN users, NEW r \in RoomId
  PROVE  /\ RoomsWithout(fd)[r] \in Seq(Fd)
         /\ NoRepeats(RoomsWithout(fd)[r])
         /\ Len(RoomsWithout(fd)[r]) <= Len(rooms[r])
         /\ \A u \in Fd : Occurs(u, RoomsWithout(fd)[r])
                            <=> Occurs(u, rooms[r]) /\ u # fd
<1>1. /\ rooms[r] \in Seq(Fd) /\ fd \in Fd
      /\ Len(rooms[r]) \in Nat
      /\ NoRepeats(rooms[r])
      /\ Occurs(fd, rooms[r]) <=> users[fd].room = r
  BY DEF TypeOK, RoomConsistency
<1>2. CASE users[fd].room = r
  <2>1. RoomsWithout(fd)[r] = room_remove_user(rooms[r], fd)
    BY <1>2 DEF RoomsWithout
  <2>2. QED BY <1>1, <1>2, <2>1, RemoveUser
<1>3. CASE users[fd].room # r
  <2>1. RoomsWithout(fd)[r] = rooms[r]
    BY <1>3 DEF RoomsWithout
  <2>2. QED BY <1>1, <1>3, <2>1
<1>4. QED BY <1>2, <1>3

LEMMA RoomsInit == Init => RoomConsistency
<1> SUFFICES ASSUME Init PROVE RoomConsistency
  OBVIOUS
<1>1. \A r \in RoomId : rooms[r] = << >>
  BY DEF Init, room_array_init
<1>2. DOMAIN users = {}
  BY DEF Init
<1>3. NoRepeats(<< >>) /\ \A u : ~Occurs(u, << >>)
  BY DEF NoRepeats, Occurs
<1>4. Len(<< >>) <= MaxUsersPerRoom
  BY RoomsAssumption
<1>5. QED BY <1>1, <1>2, <1>3, <1>4 DEF RoomConsistency

(* Nobody's room changes and nobody moves.                                 *)
LEMMA RoomsSame ==
  ASSUME RoomConsistency, UNCHANGED rooms, DOMAIN users' = DOMAIN users,
         \A u \in DOMAIN users : users'[u].room = users[u].room
  PROVE  RoomConsistency'
BY DEF RoomConsistency

(* A user leaves its room and is in none afterwards, or not known any more. *)
LEMMA RoomsAfterLeaving ==
  ASSUME TypeOK, RoomConsistency, NEW fd \in DOMAIN users,
         rooms' = RoomsWithout(fd),
         DOMAIN users' \subseteq DOMAIN users,
         \A u \in DOMAIN users : u # fd => u \in DOMAIN users' /\ users'[u] = users[u],
         fd \in DOMAIN users' => users'[fd].room \notin RoomId
  PROVE  RoomConsistency'
<1> SUFFICES ASSUME NEW r \in RoomId
             PROVE  /\ NoRepeats(rooms'[r])
                    /\ Len(rooms'[r]) <= MaxUsersPerRoom
                    /\ \A u \in Fd :
                         Occurs(u, rooms'[r]) <=> u \in DOMAIN users' /\ users'[u].room = r
  BY DEF RoomConsistency
<1>1. /\ rooms'[r] \in Seq(Fd)
      /\ NoRepeats(rooms'[r])
      /\ Len(rooms'[r]) <= Len(rooms[r])
      /\ \A u \in Fd : Occurs(u, rooms'[r]) <=> Occurs(u, rooms[r]) /\ u # fd
  BY LeaveRoom
<1>2. Len(rooms'[r]) <= MaxUsersPerRoom
  <2>1. rooms[r] \in Seq(Fd) /\ Len(rooms[r]) <= MaxUsersPerRoom
    BY DEF TypeOK, RoomConsistency
  <2>2. Len(rooms[r]) \in Nat /\ Len(rooms'[r]) \in Nat
    BY <1>1, <2>1
  <2>3. QED BY <1>1, <2>1, <2>2, RoomsAssumption
<1>3. ASSUME NEW u \in Fd
      PROVE  Occurs(u, rooms'[r]) <=> u \in DOMAIN users' /\ users'[u].room = r
  <2>1. Occurs(u, rooms[r]) <=> u \in DOMAIN users /\ users[u].room = r
    BY DEF RoomConsistency
  <2>2. QED BY <1>1, <2>1
<1>4. QED BY <1>1, <1>2, <1>3

(* A user leaves its room, if any, and enters one that is not full.        *)
LEMMA RoomsAfterJoining ==
  ASSUME TypeOK, RoomConsistency, NEW fd \in DOMAIN users, NEW q, JoinRoom(fd, q)
  PROVE  RoomConsistency'
<1>0. /\ q \in RoomId /\ users[fd].room # q /\ ~RoomIsFull(rooms[q])
      /\ fd \in Fd
      /\ rooms' = [RoomsWithout(fd) EXCEPT ![q] = Append(@, fd)]
      /\ users' = [users EXCEPT ![fd].room = q]
  BY DEF JoinRoom, RoomExists, room_add_user, TypeOK
<1>1. /\ DOMAIN users' = DOMAIN users /\ users'[fd].room = q
      /\ \A u \in DOMAIN users : u # fd => users'[u] = users[u]
  BY <1>0 DEF TypeOK
<1> SUFFICES ASSUME NEW r \in RoomId
             PROVE  /\ NoRepeats(rooms'[r])
                    /\ Len(rooms'[r]) <= MaxUsersPerRoom
                    /\ \A u \in Fd :
                         Occurs(u, rooms'[r]) <=> u \in DOMAIN users' /\ users'[u].room = r
  BY DEF RoomConsistency
<1> DEFINE s == RoomsWithout(fd)[r]
<1>2. /\ s \in Seq(Fd)
      /\ NoRepeats(s)
      /\ Len(s) <= Len(rooms[r])
      /\ \A u \in Fd : Occurs(u, s) <=> Occurs(u, rooms[r]) /\ u # fd
  BY LeaveRoom
<1>3. /\ rooms[r] \in Seq(Fd) /\ Len(rooms[r]) <= MaxUsersPerRoom
      /\ \A u \in Fd : Occurs(u, rooms[r]) <=> u \in DOMAIN users /\ users[u].room = r
  BY DEF TypeOK, RoomConsistency
<1>4. Len(rooms[r]) \in Nat /\ Len(s) \in Nat /\ MaxUsersPerRoom \in Nat
  BY <1>2, <1>3, RoomsAssumption
<1>5. DOMAIN RoomsWithout(fd) = RoomId
  BY DEF RoomsWithout
<1> HIDE DEF s
<1>6. CASE r = q
  <2>1. rooms'[r] = Append(s, fd)
    BY <1>0, <1>5, <1>6 DEF s
  <2>2. NoRepeats(Append(s, fd)) /\ \A u : Occurs(u, Append(s, fd)) <=> u = fd \/ Occurs(u, s)
    BY <1>0, <1>2, AppendNew
  <2>3. Len(Append(s, fd)) = Len(s) + 1
    BY <1>2
  <2>4. Len(rooms[r]) < MaxUsersPerRoom
    BY <1>0, <1>3, <1>4, <1>6 DEF RoomIsFull
  <2>5. Len(Append(s, fd)) <= MaxUsersPerRoom
    BY <1>2, <1>4, <2>3, <2>4
  <2>6. \A u \in Fd : Occurs(u, rooms'[r]) <=> u \in DOMAIN users' /\ users'[u].room = r
    BY <1>1, <1>2, <1>3, <1>6, <2>1, <2>2
  <2>7. QED BY <2>1, <2>2, <2>5, <2>6
<1>7. CASE r # q
  <2>1. rooms'[r] = s
    BY <1>0, <1>5, <1>7 DEF s
  <2>2. \A u \in Fd : Occurs(u, rooms'[r]) <=> u \in DOMAIN users' /\ users'[u].room = r
    BY <1>1, <1>2, <1>3, <1>7, <2>1
  <2>3. QED BY <1>2, <1>3, <1>4, <2>1, <2>2
<1>8. QED BY <1>6, <1>7


(* A joined, refused or renamed user.                                      *)
LEMMA RoomsHandlers ==
  ASSUME TypeOK, RoomConsistency, NEW fd \in Fd, HandleMessage(fd),
         user_table_find(users, fd)
  PROVE  RoomConsistency'
<1> DEFINE m == Received(fd)
<1>1. /\ fd \in DOMAIN users
      /\ users \in [DOMAIN users -> [room : RoomId \cup {InvalidRoom}, name : Names]]
  BY DEF user_table_find, TypeOK
<1>2. \/ handle_chat_message(fd, m)
      \/ handle_name_message(fd, m)
      \/ handle_join_message(fd, m)
  BY DEF HandleMessage
<1> HIDE DEF m
<1>3. CASE handle_chat_message(fd, m)
  BY <1>3, RoomsSame DEF handle_chat_message
<1>4. CASE handle_name_message(fd, m)
  <2>1. users' = [users EXCEPT ![fd].name = m.name] /\ rooms' = rooms
    BY <1>4 DEF handle_name_message
  <2>2. /\ DOMAIN users' = DOMAIN users
        /\ \A u \in DOMAIN users : users'[u].room = users[u].room
    BY <1>1, <2>1
  <2>3. QED BY <2>1, <2>2, RoomsSame
<1>5. CASE JoinNoSuchRoom(fd, m.room) \/ JoinSameRoom(fd, m.room)
  BY <1>5, RoomsSame DEF JoinNoSuchRoom, JoinSameRoom
<1>6. CASE JoinFullRoom(fd, m.room)
  <2>1. /\ rooms' = RoomsWithout(fd)
        /\ users' = [users EXCEPT ![fd].room = InvalidRoom]
    BY <1>6 DEF JoinFullRoom
  <2>2. /\ DOMAIN users' = DOMAIN users
        /\ \A u \in DOMAIN users : u # fd => users'[u] = users[u]
        /\ users'[fd].room = InvalidRoom
    BY <1>1, <2>1
  <2>3. InvalidRoom \notin RoomId
    BY RoomsAssumption DEF InvalidRoom, RoomId
  <2>4. QED BY <1>1, <2>1, <2>2, <2>3, RoomsAfterLeaving
<1>7. CASE JoinRoom(fd, m.room)
  BY <1>1, <1>7, RoomsAfterJoining
<1>8. QED BY <1>2, <1>3, <1>4, <1>5, <1>6, <1>7 DEF handle_join_message

LEMMA RoomsStep ==
  TypeOK /\ UsersAreConnections /\ RoomConsistency /\ [Next]_vars => RoomConsistency'
<1> SUFFICES ASSUME TypeOK, UsersAreConnections, RoomConsistency, [Next]_vars
             PROVE  RoomConsistency'
  OBVIOUS
<1>1. CASE UNCHANGED <<users, rooms>>
  BY <1>1 DEF RoomConsistency
<1>2. ASSUME NEW fd \in Fd, AcceptClient(fd) PROVE RoomConsistency'
  <2>1. fd \notin DOMAIN users /\ rooms' = rooms
    BY <1>2 DEF AcceptClient, UsersAreConnections
  <2>2. users' = user_table_add(users, fd)
    BY <1>2, <2>1 DEF AcceptClient, user_table_find
  <2>3. /\ DOMAIN users' = DOMAIN users \cup {fd}
        /\ \A u \in DOMAIN users : users'[u] = users[u]
        /\ users'[fd].room = InvalidRoom
    BY <2>1, <2>2 DEF user_table_add, NewUser
  <2>4. InvalidRoom \notin RoomId
    BY RoomsAssumption DEF InvalidRoom, RoomId
  <2>5. QED BY <2>1, <2>3, <2>4 DEF RoomConsistency
<1>3. ASSUME NEW fd, handle_client_termination(fd) PROVE RoomConsistency'
  <2>1. CASE user_table_find(users, fd)
    <3>1. /\ fd \in DOMAIN users
          /\ users' = user_table_delete(users, fd)
          /\ rooms' = RoomsWithout(fd)
      BY <1>3, <2>1 DEF handle_client_termination, user_table_find
    <3>2. /\ DOMAIN users' = DOMAIN users \ {fd}
          /\ \A u \in DOMAIN users : u # fd => users'[u] = users[u]
      BY <3>1 DEF user_table_delete
    <3>3. QED BY <3>1, <3>2, RoomsAfterLeaving
  <2>2. CASE ~user_table_find(users, fd)
    BY <1>1, <1>3, <2>2 DEF handle_client_termination
  <2>3. QED BY <2>1, <2>2
<1>4. ASSUME NEW fd \in Fd, HandleMessage(fd) PROVE RoomConsistency'
  <2>1. CASE user_table_find(users, fd)
    BY <1>4, <2>1, RoomsHandlers
  <2>2. CASE ~user_table_find(users, fd)
    BY <1>1, <1>4, <2>2 DEF HandleMessage
  <2>3. QED BY <2>1, <2>2
<1>5. ASSUME Poll \/ PollFails \/ Skip \/ AcceptFails \/ RecvFails \/ SendStep
             \/ ClientNext \/ UNCHANGED vars
      PROVE  UNCHANGED <<users, rooms>>
  BY <1>5 DEF Poll, PollFails, Skip, AcceptFails, RecvFails, SendStep, ClientNext, Connect,
       ClientSend, ClientRead, ClientClose, vars, process
<1>6. QED
  BY <1>1, <1>2, <1>3, <1>4, <1>5 DEF Next, ServerNext, ServerRuns, HandleHangUp, HandleEof

(* The user table and the rooms always agree, for any number of rooms and  *)
(* any room size up to 255: whatever joins, refusals, renames, departures  *)
(* and reused descriptors came before, and also when a resize moved the    *)
(* poll array.                                                             *)
THEOREM RoomsConsistent == Spec => []RoomConsistency
BY RoomsInit, RoomsStep, TypeCorrect, UsersMatchConnections, PTL DEF Spec


-----------------------------------------------------------------------------
(***************************************************************************)
(* Whoever a message is still to be sent to is there.  Nobody enters or    *)
(* leaves the table while to is not empty.                                 *)
(***************************************************************************)

(* A handler's receivers are members, and of the room for a chat message.  *)
LEMMA RecipientsOfMessage ==
  ASSUME TypeOK, RoomConsistency, NEW fd \in Fd, HandleMessage(fd),
         user_table_find(users, fd)
  PROVE  /\ DOMAIN users' = DOMAIN users
         /\ \A k \in 1 .. Len(to') :
              /\ to'[k] \in DOMAIN users'
              /\ msg'.type = "CHAT" => users'[to'[k]].room = msg'.room
<1> DEFINE m == Received(fd)
<1>1. /\ fd \in DOMAIN users
      /\ users \in [DOMAIN users -> [room : RoomId \cup {InvalidRoom}, name : Names]]
  BY DEF user_table_find, TypeOK
<1>2. \/ handle_chat_message(fd, m)
      \/ handle_name_message(fd, m)
      \/ handle_join_message(fd, m)
  BY DEF HandleMessage
<1>3. DOMAIN users' = DOMAIN users
  BY DEF HandleMessage, handle_chat_message, handle_name_message, handle_join_message,
     JoinNoSuchRoom, JoinSameRoom, JoinFullRoom, JoinRoom
<1> HIDE DEF m
<1>4. ASSUME NEW reply, NEW r, Reply(fd, reply, r)
      PROVE  \A k \in 1 .. Len(to') : /\ to'[k] \in DOMAIN users'
                                      /\ msg'.type # "CHAT"
  BY <1>1, <1>3, <1>4 DEF Reply, ReplyMessage
<1>5. CASE handle_chat_message(fd, m) /\ users[fd].room # InvalidRoom
  <2>1. /\ users[fd].room \in RoomId /\ users' = users
        /\ to' = rooms[users[fd].room] /\ msg'.room = users[fd].room
    BY <1>1, <1>5 DEF handle_chat_message, ChatMessage
  <2>2. rooms[users[fd].room] \in Seq(Fd)
    BY <2>1 DEF TypeOK
  <2>3. ASSUME NEW k \in 1 .. Len(to')
        PROVE  to'[k] \in DOMAIN users /\ users[to'[k]].room = users[fd].room
    <3>1. to'[k] \in Fd /\ Occurs(to'[k], rooms[users[fd].room])
      BY <2>1, <2>2 DEF Occurs
    <3>2. QED BY <2>1, <3>1 DEF RoomConsistency
  <2>4. QED BY <1>3, <2>1, <2>3
<1>6. CASE handle_chat_message(fd, m) /\ users[fd].room = InvalidRoom
  BY <1>3, <1>4, <1>6 DEF handle_chat_message
<1>7. CASE handle_name_message(fd, m) \/ handle_join_message(fd, m)
  BY <1>3, <1>4, <1>7 DEF handle_name_message, handle_join_message,
     JoinNoSuchRoom, JoinSameRoom, JoinFullRoom, JoinRoom
<1>8. QED BY <1>2, <1>5, <1>6, <1>7

LEMMA RecipientsStep ==
  ASSUME TypeOK, TypeOK', UsersAreConnections', RoomConsistency, RecipientsAreMembers,
         [Next]_vars
  PROVE  RecipientsAreMembers'
<1> DEFINE Members == \A k \in 1 .. Len(to) :
                        /\ to[k] \in DOMAIN users
                        /\ msg.type = "CHAT" => users[to[k]].room = msg.room
<1>1. Members' => RecipientsAreMembers'
  <2>1. to' \in Seq(Fd)
    BY DEF TypeOK
  <2>2. \A k \in 1 .. Len(to') : to'[k] \in Fd
    BY <2>1
  <2>3. QED BY <2>2 DEF RecipientsAreMembers, UsersAreConnections
<1>2. Members
  BY DEF RecipientsAreMembers
<1>3. CASE to' = << >>
  <2>1. Len(to') = 0
    BY <1>3
  <2>2. QED BY <2>1, <1>1
<1>4. CASE UNCHANGED <<users, msg, to>>
  BY <1>1, <1>2, <1>4
<1>5. CASE SendStep
  <2>1. UNCHANGED users /\ to # << >> /\ to \in Seq(Fd)
    BY <1>5 DEF SendStep, TypeOK
  <2>2. CASE NextReceiver
    <3>1. /\ to' = Tail(to) /\ Len(Tail(to)) = Len(to) - 1 /\ Len(to) \in Nat
          /\ \A k \in 1 .. Len(Tail(to)) : Tail(to)[k] = to[k + 1]
      BY <2>1, <2>2, HeadTailProperties DEF NextReceiver
    <3>2. CASE Len(to) = 1
      <4>1. to' = << >>
        BY <2>1, <3>1, <3>2, HeadTailProperties, EmptySeq
      <4>2. QED BY <1>3, <4>1
    <3>3. CASE Len(to) # 1
      <4>1. msg' = msg
        BY <2>2, <3>3 DEF NextReceiver
      <4>2. ASSUME NEW k \in 1 .. Len(to')
            PROVE  k + 1 \in 1 .. Len(to) /\ to'[k] = to[k + 1]
        BY <3>1
      <4>3. Members'
        BY <1>2, <2>1, <4>1, <4>2
      <4>4. QED BY <1>1, <4>3
    <3>4. QED BY <3>2, <3>3
  <2>3. CASE to' = << >>
    BY <1>3, <2>3
  <2>4. QED
    BY <1>5, <2>2, <2>3 DEF SendStep, Send, SendAfterFin, SendFails, Exit
<1>6. ASSUME NEW fd \in Fd, AcceptClient(fd) PROVE RecipientsAreMembers'
  BY <1>3, <1>6 DEF AcceptClient, AtListener, ReadyAt, Scanning, Exit
<1>7. ASSUME NEW fd, Scanning, handle_client_termination(fd) PROVE RecipientsAreMembers'
  BY <1>3, <1>7 DEF Scanning, handle_client_termination, Exit
<1>8. ASSUME NEW fd \in Fd, HandleMessage(fd) PROVE RecipientsAreMembers'
  <2>1. CASE user_table_find(users, fd)
    BY <1>1, <1>8, <2>1, RecipientsOfMessage
  <2>2. CASE ~user_table_find(users, fd)
    BY <1>3, <1>8, <2>2 DEF HandleMessage, Exit
  <2>3. QED BY <2>1, <2>2
<1>9. CASE AcceptFails \/ RecvFails \/ PollFails
  BY <1>3, <1>9 DEF AcceptFails, RecvFails, PollFails, Exit
<1>10. ASSUME Poll \/ Skip \/ ClientNext \/ UNCHANGED vars
       PROVE  UNCHANGED <<users, msg, to>>
  BY <1>10 DEF Poll, Skip, ClientNext, Connect, ClientSend, ClientRead, ClientClose,
       vars, process
<1>11. QED
  BY <1>4, <1>5, <1>6, <1>7, <1>8, <1>9, <1>10
  DEF Next, ServerNext, ServerRuns, HandleHangUp, HandleEof, AtClient, ReadyAt

(* However many clients leave while a room is being told something, nobody *)
(* on the list has been forgotten and nobody on it is in another room.     *)
THEOREM RecipientsStay == Spec => []RecipientsAreMembers
<1>1. Init => RecipientsAreMembers
  <2>1. Init => Len(to) = 0
    BY DEF Init
  <2>2. QED BY <2>1 DEF RecipientsAreMembers
<1>2. QED
  BY <1>1, RecipientsStep, TypeCorrect, UsersMatchConnections, RoomsConsistent, PTL
  DEF Spec

-----------------------------------------------------------------------------
(***************************************************************************)
(* As long as no append moves the poll array: it has exactly the connected *)
(* clients, what poll() reported stays true until it is used, and none of  *)
(* the server's consistency checks fires.                                  *)
(***************************************************************************)
(* No append moves the array: because reallocarray finds room where the    *)
(* block is, or because all the clients there can be fit the initial block *)
(* (4 clients in the code) and nothing is ever resized.  When an append    *)
(* does move it, what follows here is false: EveryClientIsPolled.          *)
ArrayStays ==
  \/ "moved" \notin ReallocResults
  \/ IsFiniteSet(Fd) /\ Cardinality(Fd) < InitialCapacity

(* Registry and ReadinessFresh depend on each other: an entry is deleted   *)
(* when it was reported hung up or at its end, and that it is a client's   *)
(* follows from the report; that a report stays true follows from no other *)
(* entry having the same descriptor.  The listening socket never hangs up. *)
ListenerListens == "HUP" \notin pollfds[1].revents

(* The block never gets smaller than it was at the start.                  *)
NeverSmaller == capacity \in Nat /\ capacity >= InitialCapacity

PollInv == Registry /\ ListenerListens /\ ReadinessFresh /\ NeverSmaller

(* The entries are polled descriptors, and as many as the descriptors.     *)
LEMMA EntryFacts ==
  ASSUME TypeOK
  PROVE  /\ pollfds \in Seq(Pollfd(PolledFd)) /\ Len(pollfds) \in Nat
         /\ Fds(pollfds) \in Seq(PolledFd)
         /\ Len(Fds(pollfds)) = Len(pollfds)
         /\ \A k \in 1 .. Len(pollfds) :
              Fds(pollfds)[k] = pollfds[k].fd /\ pollfds[k] \in Pollfd(PolledFd)
<1>1. pollfds \in Seq(Pollfd(PolledFd)) /\ Len(pollfds) \in Nat
  BY DEF TypeOK
<1>2. QED BY <1>1, FdsShape

(* Two positions never have the same descriptor, and only the first has    *)
(* the listening socket.                                                   *)
LEMMA DistinctEntries ==
  ASSUME TypeOK, Registry
  PROVE  /\ \A j, k \in 1 .. Len(pollfds) : pollfds[j].fd = pollfds[k].fd => j = k
         /\ \A k \in 1 .. Len(pollfds) :
              /\ k = 1 <=> pollfds[k].fd = Listener
              /\ k # 1 => pollfds[k].fd \in DOMAIN users
<1>1. /\ Len(pollfds) \in Nat
      /\ Len(Fds(pollfds)) = Len(pollfds)
      /\ \A k \in 1 .. Len(pollfds) : Fds(pollfds)[k] = pollfds[k].fd
  BY EntryFacts
<1>2. \A j, k \in 1 .. Len(pollfds) : pollfds[j].fd = pollfds[k].fd => j = k
  BY <1>1 DEF Registry, NoRepeats
<1>3. ASSUME NEW k \in 1 .. Len(pollfds)
      PROVE  /\ k = 1 <=> pollfds[k].fd = Listener
             /\ k # 1 => pollfds[k].fd \in DOMAIN users
  BY <1>1, <1>2 DEF Registry
<1>4. QED BY <1>2, <1>3

LEMMA PollInit == Init => PollInv
<1> SUFFICES ASSUME Init PROVE PollInv
  OBVIOUS
<1>1. pollfds = <<NewEntry(Listener)>> /\ users = << >> /\ i = 2
  BY DEF Init
<1>2. Len(pollfds) = 1 /\ pollfds[1].fd = Listener /\ pollfds[1].revents = {}
  BY <1>1 DEF NewEntry
<1>3. DOMAIN users = {}
  BY <1>1
<1>4. NoRepeats(Fds(pollfds))
  BY <1>2 DEF NoRepeats, Fds
<1>5. NeverSmaller
  BY PollfdArrayAssumption DEF Init, NeverSmaller
<1>6. QED
  BY <1>1, <1>2, <1>3, <1>4, <1>5 DEF PollInv, Registry, ListenerListens, ReadinessFresh

-----------------------------------------------------------------------------
(***************************************************************************)
(* Registry, step by step.                                                 *)
(***************************************************************************)

(* Nothing is appended or deleted.                                         *)
LEMMA RegistrySame ==
  ASSUME TypeOK, Registry,
         Fds(pollfds') = Fds(pollfds), Len(pollfds') = Len(pollfds),
         DOMAIN users' = DOMAIN users
  PROVE  Registry'
<1>1. \A k \in 1 .. Len(pollfds') : pollfds'[k].fd = pollfds[k].fd
  BY DEF Fds
<1>2. Len(pollfds) \in Nat
  BY EntryFacts
<1>3. QED BY <1>1, <1>2 DEF Registry

(* A new client is appended, and was not there before.                     *)
LEMMA RegistryAppend ==
  ASSUME TypeOK, Registry, NEW fd \in Fd, fd \notin DOMAIN users,
         pollfds' = Append(pollfds, NewEntry(fd)),
         DOMAIN users' = DOMAIN users \cup {fd}
  PROVE  Registry'
<1>1. NewEntry(fd) \in Pollfd(PolledFd) /\ NewEntry(fd).fd = fd
  BY DEF NewEntry, Pollfd, PolledFd
<1>2. ~Occurs(fd, Fds(pollfds))
  <2>1. \A k \in 1 .. Len(pollfds) : pollfds[k].fd # fd
    BY DistinctEntries, ServerAssumption
  <2>2. QED BY <2>1, EntryFacts DEF Occurs
<1>3. /\ NoRepeats(Fds(pollfds'))
      /\ \A u : Occurs(u, Fds(pollfds')) <=> u = fd \/ Occurs(u, Fds(pollfds))
  BY <1>1, <1>2, EntryFacts, FdsOfAppend DEF Registry
<1>4. /\ Len(pollfds') = Len(pollfds) + 1
      /\ \A k \in 1 .. Len(pollfds) : pollfds'[k] = pollfds[k]
      /\ pollfds'[Len(pollfds) + 1] = NewEntry(fd)
  BY EntryFacts
<1>5. Len(pollfds) \in Nat /\ Len(pollfds) > 0 /\ pollfds[1].fd = Listener
  BY EntryFacts DEF Registry
<1>6. \A k \in 2 .. Len(pollfds') : pollfds'[k].fd \in DOMAIN users'
  BY <1>1, <1>4, <1>5 DEF Registry
<1>7. QED BY <1>3, <1>4, <1>5, <1>6 DEF Registry

(* A client's entry is deleted.                                            *)
LEMMA RegistryDelete ==
  ASSUME TypeOK, Registry, NEW fd \in DOMAIN users, NEW p \in 2 .. Len(pollfds),
         pollfds[p].fd = fd,
         pollfds' = SwapRemove(pollfds, p),
         DOMAIN users' = DOMAIN users \ {fd}
  PROVE  Registry'
<1>1. p \in 1 .. Len(pollfds) /\ p # 1 /\ Len(pollfds) \in Nat /\ Len(pollfds) >= 2
  BY EntryFacts
<1>2. /\ Len(pollfds') = Len(pollfds) - 1
      /\ \A k \in 1 .. (Len(pollfds) - 1) :
           pollfds'[k] = IF k = p THEN pollfds[Len(pollfds)] ELSE pollfds[k]
  <2>1. pollfds \in Seq(Pollfd(PolledFd))
    BY EntryFacts
  <2>2. QED BY <1>1, <2>1, SwapRemoveShape
<1>3. /\ Fds(pollfds') = SwapRemove(Fds(pollfds), p)
      /\ p \in 1 .. Len(Fds(pollfds)) /\ Fds(pollfds)[p] = fd
  BY <1>1, EntryFacts, FdsOfDelete
<1>4. NoRepeats(Fds(pollfds'))
  BY <1>3, EntryFacts, SwapRemoveNoRepeats DEF Registry
<1>5. \A u : Occurs(u, Fds(pollfds')) <=> Occurs(u, Fds(pollfds)) /\ u # fd
  BY <1>3, EntryFacts, SwapRemoveOccurs DEF Registry
<1>6. ASSUME NEW k \in 2 .. Len(pollfds') PROVE pollfds'[k].fd \in DOMAIN users'
  <2>1. PICK j \in 2 .. Len(pollfds) : j # p /\ pollfds'[k] = pollfds[j]
    BY <1>1, <1>2
  <2>2. pollfds[j].fd # fd
    BY <1>1, <2>1, DistinctEntries
  <2>3. QED BY <2>1, <2>2 DEF Registry
<1>7. pollfds'[1].fd = Listener
  BY <1>1, <1>2 DEF Registry
<1>8. QED BY <1>1, <1>2, <1>4, <1>5, <1>6, <1>7 DEF Registry


(* Whoever is cleared up is a client the table knows, at its own entry.    *)
LEMMA TerminatedIsClient ==
  ASSUME TypeOK, PollInv, HandleHangUp \/ \E fd \in Fd : HandleEof(fd)
  PROVE  /\ Running
         /\ i \in 2 .. Len(pollfds) /\ Current.fd \in DOMAIN users
         /\ user_table_find(users, Current.fd)
         /\ handle_client_termination(Current.fd)
         /\ pollfds' = SwapRemove(pollfds, i) /\ i' = i
         /\ DOMAIN users' = DOMAIN users \ {Current.fd}
<1>1. /\ Running /\ i \in 1 .. Len(pollfds)
      /\ handle_client_termination(Current.fd)
      /\ "HUP" \in Current.revents \/ Current.fd # Listener
  BY DEF HandleHangUp, HandleEof, AtClient, ReadyAt, Scanning, handle_client_termination,
     pollfd_array_delete
<1>2. i # 1
  BY <1>1 DEF PollInv, ListenerListens, Registry, Current
<1>3. i \in 2 .. Len(pollfds)
  BY <1>1, <1>2, EntryFacts
<1>4. Current.fd \in DOMAIN users
  BY <1>1, <1>2, DistinctEntries DEF PollInv, Current
<1>5. user_table_find(users, Current.fd)
  BY <1>4 DEF user_table_find
<1>6. /\ pollfds' = SwapRemove(pollfds, i) /\ i' = i
      /\ users' = user_table_delete(users, Current.fd)
  BY <1>1, <1>5 DEF handle_client_termination, pollfd_array_delete
<1>7. DOMAIN users' = DOMAIN users \ {Current.fd}
  BY <1>6 DEF user_table_delete
<1>8. QED BY <1>1, <1>3, <1>4, <1>5, <1>6, <1>7

(* While a descriptor is free the entries, the listening socket's          *)
(* included, are no more than the descriptors.                             *)
LEMMA FewEntries ==
  ASSUME TypeOK, Registry, IsFiniteSet(Fd), NEW fd \in Fd, fd \notin DOMAIN users
  PROVE  Len(pollfds) <= Cardinality(Fd)
<1> DEFINE S == 2 .. Len(pollfds)
           T == Fd \ {fd}
           f == [k \in S |-> pollfds[k].fd]
<1>1. Len(pollfds) \in Nat /\ Len(pollfds) > 0
  BY EntryFacts DEF Registry
<1>2. \A k \in S : k \in 1 .. Len(pollfds) /\ k # 1 /\ pollfds[k].fd \in DOMAIN users
  BY <1>1, DistinctEntries
<1>3. DOMAIN users \subseteq Fd
  BY DEF TypeOK
<1>4. f \in [S -> T]
  BY <1>2, <1>3
<1>5. \A j, k \in S : f[j] = f[k] => j = k
  BY <1>2, DistinctEntries
<1>6. IsFiniteSet(T) /\ Cardinality(T) = Cardinality(Fd) - 1 /\ Cardinality(Fd) \in Nat
  BY FS_RemoveElement, FS_CardinalityType
<1>7. f \in Injection(S, T)
  <2> HIDE DEF S, T, f
  <2>1. QED BY <1>4, <1>5 DEF Injection, IsInjective
<1>8. Cardinality(S) <= Cardinality(T)
  <2> HIDE DEF S, T, f
  <2>1. QED BY <1>6, <1>7, FS_Injection
<1>9. Cardinality(S) = Len(pollfds) - 1
  <2>1. 2 \in Int /\ Len(pollfds) \in Int
    BY <1>1
  <2>2. Cardinality(S) = IF 2 > Len(pollfds) THEN 0 ELSE Len(pollfds) - 2 + 1
    BY <2>1, FS_Interval
  <2>3. QED BY <1>1, <2>2
<1>10. QED BY <1>1, <1>6, <1>8, <1>9

(* A client that is accepted was not in the table, and is appended to both. *)
LEMMA AcceptedIsNew ==
  ASSUME TypeOK, UsersAreConnections, PollInv, ArrayStays,
         NEW fd \in Fd, AcceptClient(fd)
  PROVE  /\ fd \notin DOMAIN users
         /\ pollfds' = Append(pollfds, NewEntry(fd))
         /\ DOMAIN users' = DOMAIN users \cup {fd}
         /\ i' = i + 1 /\ status' = status
<1>1. fd \notin DOMAIN users
  BY DEF AcceptClient, UsersAreConnections
<1>2. pollfds' = Append(pollfds, NewEntry(fd))
  <2>1. CASE "moved" \notin ReallocResults
    BY <2>1 DEF AcceptClient, pollfd_array_append
  <2>2. CASE IsFiniteSet(Fd) /\ Cardinality(Fd) < InitialCapacity
    <3>1. Len(pollfds) <= Cardinality(Fd) /\ Len(pollfds) \in Nat
      BY <1>1, <2>2, FewEntries, EntryFacts DEF PollInv
    <3>2. Cardinality(Fd) \in Nat
      BY <2>2, FS_CardinalityType
    <3>3. ~MustGrow
      BY <2>2, <3>1, <3>2, PollfdArrayAssumption DEF MustGrow, PollInv, NeverSmaller
    <3>4. QED BY <3>3 DEF AcceptClient, pollfd_array_append
  <2>3. QED BY <2>1, <2>2 DEF ArrayStays
<1>3. users' = user_table_add(users, fd) /\ i' = i + 1 /\ status' = status
  BY <1>1 DEF AcceptClient, user_table_find
<1>4. DOMAIN users' = DOMAIN users \cup {fd}
  BY <1>3 DEF user_table_add
<1>5. QED BY <1>1, <1>2, <1>3, <1>4

(* A message that is handled changes no user's being there.                *)
LEMMA HandledKeepsUsers ==
  ASSUME TypeOK, NEW fd \in Fd, HandleMessage(fd)
  PROVE  DOMAIN users' = DOMAIN users
BY DEF HandleMessage, handle_chat_message, handle_name_message, handle_join_message,
   JoinNoSuchRoom, JoinSameRoom, JoinFullRoom, JoinRoom

(* What neither appends nor deletes.                                       *)
QuietStep ==
  \/ Skip \/ AcceptFails \/ RecvFails \/ PollFails \/ SendStep \/ ClientNext
  \/ UNCHANGED vars

LEMMA QuietKeepsArrays ==
  ASSUME QuietStep
  PROVE  UNCHANGED <<pollfds, capacity, users>>
BY DEF QuietStep, Skip, AcceptFails, RecvFails, PollFails, SendStep, ClientNext, Connect, ClientSend,
   ClientRead, ClientClose, vars, process, arrays

(* poll() writes revents only.                                             *)
LEMMA PollKeepsEntries ==
  ASSUME TypeOK, Poll
  PROVE  /\ Len(pollfds') = Len(pollfds)
         /\ Fds(pollfds') = Fds(pollfds)
         /\ users' = users /\ i' = 1 /\ backlog' = backlog /\ conn' = conn /\ inbox' = inbox
         /\ \A k \in 1 .. Len(pollfds) :
              /\ pollfds'[k].fd = pollfds[k].fd
              /\ pollfds'[k].revents = PollResult(pollfds[k].fd)
<1>1. DOMAIN pollfds = 1 .. Len(pollfds) /\ Len(pollfds) \in Nat
  BY EntryFacts
<1>2. pollfds' = [k \in 1 .. Len(pollfds) |->
                    [pollfds[k] EXCEPT !.revents = PollResult(pollfds[k].fd)]]
  BY <1>1 DEF Poll
<1>3. Len(pollfds') = Len(pollfds)
  BY <1>1, <1>2
<1>4. \A k \in 1 .. Len(pollfds) :
        /\ pollfds'[k].fd = pollfds[k].fd
        /\ pollfds'[k].revents = PollResult(pollfds[k].fd)
  BY <1>2, EntryFacts DEF Pollfd
<1>5. Fds(pollfds') = Fds(pollfds)
  BY <1>3, <1>4 DEF Fds
<1>6. QED BY <1>3, <1>4, <1>5 DEF Poll, kernel

LEMMA RegistryStep ==
  ASSUME TypeOK, UsersAreConnections, PollInv, [Next]_vars, ArrayStays
  PROVE  Registry'
<1>0. Registry
  BY DEF PollInv
<1>1. CASE QuietStep
  BY <1>0, <1>1, QuietKeepsArrays, RegistrySame
<1>2. CASE Poll
  BY <1>0, <1>2, PollKeepsEntries, RegistrySame
<1>3. ASSUME NEW fd \in Fd, AcceptClient(fd) PROVE Registry'
  BY <1>0, <1>3, AcceptedIsNew, RegistryAppend
<1>4. CASE HandleHangUp \/ \E fd \in Fd : HandleEof(fd)
  BY <1>0, <1>4, TerminatedIsClient, RegistryDelete DEF Current
<1>5. ASSUME NEW fd \in Fd, HandleMessage(fd) PROVE Registry'
  BY <1>0, <1>5, HandledKeepsUsers, RegistrySame DEF HandleMessage, arrays
<1>6. QED
  BY <1>1, <1>2, <1>3, <1>4, <1>5 DEF Next, ServerNext, ServerRuns, QuietStep

(* The listening socket stays at the front, and never hangs up.            *)
LEMMA ListenerStep ==
  ASSUME TypeOK, UsersAreConnections, PollInv, [Next]_vars, ArrayStays
  PROVE  ListenerListens'
<1>0. /\ Len(pollfds) \in Nat /\ Len(pollfds) > 0
      /\ pollfds[1].fd = Listener /\ "HUP" \notin pollfds[1].revents
  BY EntryFacts DEF PollInv, Registry, ListenerListens
<1> USE DEF ListenerListens
<1>1. CASE QuietStep
  BY <1>0, <1>1, QuietKeepsArrays
<1>2. CASE Poll
  <2>1. pollfds'[1].revents = PollResult(Listener)
    BY <1>0, <1>2, PollKeepsEntries
  <2>2. QED BY <2>1, ServerAssumption DEF PollResult, HungUp
<1>3. ASSUME NEW fd \in Fd, AcceptClient(fd) PROVE ListenerListens'
  <2>1. pollfds' = Append(pollfds, NewEntry(fd))
    BY <1>3, AcceptedIsNew
  <2>2. QED BY <1>0, <2>1, EntryFacts
<1>4. CASE HandleHangUp \/ \E fd \in Fd : HandleEof(fd)
  <2>1. i \in 2 .. Len(pollfds) /\ pollfds' = SwapRemove(pollfds, i)
    BY <1>4, TerminatedIsClient
  <2>2. pollfds'[1] = pollfds[1]
    <3>1. i \in 1 .. Len(pollfds) /\ 1 \in 1 .. (Len(pollfds) - 1) /\ i # 1
      BY <1>0, <2>1
    <3>2. \A k \in 1 .. (Len(pollfds) - 1) :
            pollfds'[k] = IF k = i THEN pollfds[Len(pollfds)] ELSE pollfds[k]
      BY <2>1, <3>1, EntryFacts, SwapRemoveShape
    <3>3. QED BY <3>1, <3>2
  <2>3. QED BY <1>0, <2>2
<1>5. ASSUME NEW fd \in Fd, HandleMessage(fd) PROVE ListenerListens'
  BY <1>0, <1>5 DEF HandleMessage, arrays
<1>6. QED
  BY <1>1, <1>2, <1>3, <1>4, <1>5 DEF Next, ServerNext, ServerRuns, QuietStep


-----------------------------------------------------------------------------
(***************************************************************************)
(* ReadinessFresh, step by step.                                           *)
(***************************************************************************)

(* What poll() may have reported of fd stays true.                         *)
StaysReady(fd) == (Readable(fd) => Readable(fd)') /\ (HungUp(fd) => HungUp(fd)')

(* It does if fd's connection stays as it is, or has been left by the      *)
(* client, and its input is not used up.                                   *)
LEMMA StillReady ==
  ASSUME NEW D, backlog \in Nat, backlog' \in Nat,
         Listener \in D => backlog' >= backlog,
         \A fd \in Fd \cap D :
           /\ \/ conn'[fd] = conn[fd]
              \/ conn[fd] = "open" /\ conn'[fd] \in {"fin", "rst"}
              \/ conn[fd] = "fin" /\ conn'[fd] \in {"fin", "rst"}
           /\ inbox[fd] # << >> => inbox'[fd] # << >>
  PROVE  \A fd \in D : StaysReady(fd)
<1> SUFFICES ASSUME NEW fd \in D PROVE StaysReady(fd)
  OBVIOUS
<1>1. CASE fd \in Fd
  BY <1>1, ServerAssumption DEF StaysReady, Readable, HungUp, Gone
<1>2. CASE fd \notin Fd
  BY <1>2 DEF StaysReady, Readable, HungUp
<1>3. QED BY <1>1, <1>2

(* The entries are not touched, and the loop does not go back.             *)
LEMMA FreshIfKept ==
  ASSUME TypeOK, PollInv, Running, pollfds' = pollfds, i' \in {i, i + 1},
         \A fd \in PolledFd : StaysReady(fd)
  PROVE  ReadinessFresh'
<1>1. i \in Nat /\ Len(pollfds) \in Nat
  BY DEF TypeOK
<1>2. ASSUME NEW k \in i' .. Len(pollfds)
      PROVE  Fresh(k)'
  <2>1. k \in i .. Len(pollfds)
    BY <1>1, <1>2
  <2>2. pollfds[k].fd \in PolledFd
    <3>1. k \in 1 .. Len(pollfds)
      BY <1>1, <2>1 DEF TypeOK
    <3>2. QED BY <3>1, EntryFacts DEF Pollfd
  <2>3. QED BY <2>1, <2>2 DEF PollInv, ReadinessFresh, StaysReady, Fresh
<1>3. QED BY <1>2 DEF ReadinessFresh

(* Clients and sends leave the reports true.                               *)
LEMMA FreshAfterQuiet ==
  ASSUME TypeOK, PollInv, QuietStep
  PROVE  ReadinessFresh'
<1> USE DEF vars, process, kernel, arrays
<1>0. /\ backlog \in Nat /\ conn \in [Fd -> {"free", "open", "fin", "rst"}]
      /\ inbox \in [Fd -> Seq(Requests(1 .. nsent, RoomRequests, NewNames))]
  BY DEF TypeOK
<1>1. CASE ~Running'
  BY <1>1 DEF ReadinessFresh
<1>2. CASE Skip
  <2>1. pollfds' = pollfds /\ i' = i + 1 /\ Running /\ UNCHANGED <<backlog, conn, inbox>>
    BY <1>2 DEF Skip, Scanning
  <2>2. \A fd \in PolledFd : StaysReady(fd)
    BY <1>0, <2>1, StillReady
  <2>3. QED BY <2>1, <2>2, FreshIfKept
<1>3. CASE AcceptFails \/ RecvFails \/ PollFails
  BY <1>1, <1>3 DEF AcceptFails, RecvFails, PollFails, Exit, Running
<1>4. CASE SendStep
  <2>1. pollfds' = pollfds /\ i' = i /\ Running /\ UNCHANGED <<backlog, inbox>>
    BY <1>4 DEF SendStep
  <2>2. \A fd \in Fd : \/ conn'[fd] = conn[fd]
                       \/ conn[fd] = "fin" /\ conn'[fd] \in {"fin", "rst"}
    <3>1. CASE Send(Head(to)) \/ SendFails(Head(to))
      <4>1. conn' = conn
        BY <3>1 DEF Send, SendFails
      <4>2. QED BY <4>1
    <3>2. CASE SendAfterFin(Head(to))
      <4>1. conn[Head(to)] = "fin"
        BY <3>2 DEF SendAfterFin
      <4>2. PICK c \in {"fin", "rst"} : conn' = [conn EXCEPT ![Head(to)] = c]
        BY <3>2 DEF SendAfterFin
      <4>3. QED BY <1>0, <4>1, <4>2
    <3>3. QED BY <1>4, <3>1, <3>2 DEF SendStep
  <2>3. \A fd \in PolledFd : StaysReady(fd)
    BY <1>0, <2>1, <2>2, StillReady
  <2>4. QED BY <2>1, <2>3, FreshIfKept
<1>5. CASE Connect
  <2>1. /\ pollfds' = pollfds /\ i' = i /\ Running /\ UNCHANGED <<conn, inbox>>
        /\ backlog' = backlog + 1
    BY <1>5 DEF Connect
  <2>2. \A fd \in PolledFd : StaysReady(fd)
    BY <1>0, <2>1, StillReady
  <2>3. QED BY <2>1, <2>2, FreshIfKept
<1>6. ASSUME NEW c \in Fd, ClientSend(c) PROVE ReadinessFresh'
  <2>1. pollfds' = pollfds /\ i' = i /\ Running /\ UNCHANGED <<backlog, conn>>
    BY <1>6 DEF ClientSend
  <2>2. ASSUME NEW fd \in Fd PROVE inbox[fd] # << >> => inbox'[fd] # << >>
    <3>1. PICK m \in Requests({nsent'}, RoomRequests, NewNames) :
            inbox' = [inbox EXCEPT ![c] = Append(@, m)]
      BY <1>6 DEF ClientSend
    <3>2. Append(inbox[c], m) # << >>
      BY <1>0
    <3>3. QED BY <1>0, <3>1, <3>2
  <2>3. backlog' \in Nat /\ backlog' >= backlog
    BY <1>0, <2>1
  <2>4. \A fd \in Fd \cap PolledFd :
          conn'[fd] = conn[fd] /\ (inbox[fd] # << >> => inbox'[fd] # << >>)
    BY <2>1, <2>2
  <2>5. \A fd \in PolledFd : StaysReady(fd)
    BY <1>0, <2>3, <2>4, StillReady
  <2>6. QED BY <2>1, <2>5, FreshIfKept
<1>7. ASSUME NEW c \in Fd, ClientRead(c) PROVE ReadinessFresh'
  <2>1. pollfds' = pollfds /\ i' = i /\ Running /\ UNCHANGED <<backlog, conn, inbox>>
    BY <1>7 DEF ClientRead
  <2>2. \A fd \in PolledFd : StaysReady(fd)
    BY <1>0, <2>1, StillReady
  <2>3. QED BY <2>1, <2>2, FreshIfKept
<1>8. ASSUME NEW c \in Fd, ClientClose(c) PROVE ReadinessFresh'
  <2>1. /\ pollfds' = pollfds /\ i' = i /\ Running /\ UNCHANGED <<backlog, inbox>>
        /\ conn[c] = "open"
    BY <1>8 DEF ClientClose
  <2>2. PICK left \in {"fin", "rst"} : conn' = [conn EXCEPT ![c] = left]
    BY <1>8 DEF ClientClose
  <2>3. \A fd \in PolledFd : StaysReady(fd)
    BY <1>0, <2>1, <2>2, StillReady
  <2>4. QED BY <2>1, <2>3, FreshIfKept
<1>9. CASE UNCHANGED vars
  BY <1>9 DEF PollInv, ReadinessFresh, Fresh, Running, Readable, HungUp, Gone
<1>10. QED
  BY <1>2, <1>3, <1>4, <1>5, <1>6, <1>7, <1>8, <1>9 DEF QuietStep, ClientNext


(* A new entry has no report, and accept() uses up only the listening      *)
(* socket's, which is not ahead of the loop any more.                      *)
LEMMA FreshAfterAccept ==
  ASSUME TypeOK, UsersAreConnections, PollInv, ArrayStays,
         NEW fd \in Fd, AcceptClient(fd)
  PROVE  ReadinessFresh'
<1>1. /\ fd \notin DOMAIN users
      /\ pollfds' = Append(pollfds, NewEntry(fd))
      /\ i' = i + 1
  BY AcceptedIsNew
<1>2. /\ Running /\ i \in Nat \ {0} /\ pollfds[i].fd = Listener /\ i <= Len(pollfds)
      /\ backlog \in Nat /\ backlog' \in Nat
  <2>1. Running /\ pollfds[i].fd = Listener /\ i <= Len(pollfds)
    BY DEF AcceptClient, AtListener, ReadyAt, Scanning, Current
  <2>2. i \in Nat \ {0} /\ backlog \in Nat
    BY DEF TypeOK
  <2>3. backlog > 0 /\ backlog' = backlog - 1
    BY DEF AcceptClient, AtListener
  <2>4. QED BY <2>1, <2>2, <2>3
<1> DEFINE D == DOMAIN users
<1>3. \A u \in D : StaysReady(u)
  <2>1. Listener \notin D
    BY ServerAssumption DEF TypeOK
  <2>2. conn' = [conn EXCEPT ![fd] = "open"] /\ inbox' = inbox
    BY DEF AcceptClient
  <2>3. \A u \in Fd \cap D : conn'[u] = conn[u] /\ inbox'[u] = inbox[u]
    BY <1>1, <2>2
  <2> HIDE DEF D
  <2>4. QED BY <1>2, <2>1, <2>3, StillReady
<1>4. ASSUME NEW k \in i' .. Len(pollfds')
      PROVE  Fresh(k)'
  <2>1. Len(pollfds') = Len(pollfds) + 1 /\ Len(pollfds) \in Nat
    BY <1>1, EntryFacts
  <2>2. CASE k = Len(pollfds) + 1
    <3>1. pollfds'[k] = NewEntry(fd)
      BY <1>1, <2>2, EntryFacts
    <3>2. QED BY <3>1 DEF NewEntry, Fresh
  <2>3. CASE k # Len(pollfds) + 1
    <3>1. k \in i .. Len(pollfds) /\ k \in 1 .. Len(pollfds) /\ i \in 1 .. Len(pollfds)
          /\ k # i
      BY <1>1, <1>2, <1>4, <2>1, <2>3
    <3>2. pollfds'[k] = pollfds[k]
      BY <1>1, <3>1, EntryFacts
    <3>3. pollfds[k].fd \in D
      BY <1>2, <3>1, DistinctEntries DEF PollInv
    <3>4. Fresh(k)
      BY <1>2, <3>1 DEF PollInv, ReadinessFresh, Fresh
    <3>5. QED BY <1>3, <3>2, <3>3, <3>4 DEF StaysReady, Fresh
  <2>4. QED BY <2>2, <2>3
<1>5. QED BY <1>4 DEF ReadinessFresh

(* The entry that takes the deleted one's place was ahead of the loop too. *)
LEMMA FreshAfterTermination ==
  ASSUME TypeOK, PollInv, HandleHangUp \/ \E fd \in Fd : HandleEof(fd)
  PROVE  ReadinessFresh'
<1> DEFINE fd == Current.fd
           D == PolledFd \ {fd}
<1>1. /\ Running
      /\ i \in 2 .. Len(pollfds) /\ fd \in DOMAIN users
      /\ user_table_find(users, fd)
      /\ handle_client_termination(fd)
      /\ pollfds' = SwapRemove(pollfds, i) /\ i' = i
  BY TerminatedIsClient
<1>2. i \in 1 .. Len(pollfds) /\ Len(pollfds) \in Nat /\ i \in Nat
  BY <1>1, EntryFacts
<1>3. /\ Len(pollfds') = Len(pollfds) - 1
      /\ \A k \in 1 .. (Len(pollfds) - 1) :
           pollfds'[k] = IF k = i THEN pollfds[Len(pollfds)] ELSE pollfds[k]
  BY <1>1, <1>2, EntryFacts, SwapRemoveShape
<1>4. \A u \in D : StaysReady(u)
  <2>1. /\ conn' = [conn EXCEPT ![fd] = "free"]
        /\ inbox' = [inbox EXCEPT ![fd] = << >>]
        /\ backlog' = backlog
    BY <1>1 DEF handle_client_termination
  <2>2. \A u \in Fd \cap D : conn'[u] = conn[u] /\ inbox'[u] = inbox[u]
    BY <2>1
  <2>3. backlog \in Nat
    BY DEF TypeOK
  <2> HIDE DEF D
  <2>4. QED BY <2>1, <2>2, <2>3, StillReady
<1>5. ASSUME NEW k \in i' .. Len(pollfds')
      PROVE  Fresh(k)'
  <2>1. PICK j \in i .. Len(pollfds) : j # i /\ pollfds'[k] = pollfds[j]
    BY <1>1, <1>2, <1>3
  <2>2. j \in 1 .. Len(pollfds)
    BY <1>2
  <2>3. pollfds[j].fd \in D
    <3>1. pollfds[j].fd # fd
      BY <1>2, <2>1, <2>2, DistinctEntries DEF PollInv, Current
    <3>2. pollfds[j].fd \in PolledFd
      BY <2>2, EntryFacts DEF Pollfd
    <3>3. QED BY <3>1, <3>2
  <2>4. Fresh(j)
    BY <1>1 DEF PollInv, ReadinessFresh, Fresh
  <2> HIDE DEF D
  <2>5. QED BY <1>4, <2>1, <2>3, <2>4 DEF StaysReady, Fresh
<1>6. QED BY <1>5 DEF ReadinessFresh


(* A handled message uses up input of the current entry's client only.     *)
LEMMA FreshAfterMessage ==
  ASSUME TypeOK, PollInv, NEW fd \in Fd, HandleMessage(fd)
  PROVE  ReadinessFresh'
<1> DEFINE D == PolledFd \ {fd}
<1>1. /\ Running /\ i \in 1 .. Len(pollfds) /\ pollfds[i].fd = fd /\ i \in Nat
      /\ Len(pollfds) \in Nat
  BY EntryFacts
  DEF HandleMessage, AtClient, ReadyAt, Scanning, Current, TypeOK
<1>2. pollfds' = pollfds /\ backlog' = backlog /\ conn' = conn
      /\ inbox' = [inbox EXCEPT ![fd] = Tail(@)]
  BY DEF HandleMessage, arrays
<1>3. \A u \in D : StaysReady(u)
  <2>1. \A u \in Fd \cap D : conn'[u] = conn[u] /\ inbox'[u] = inbox[u]
    BY <1>2
  <2>2. backlog \in Nat /\ backlog' = backlog
    BY <1>2 DEF TypeOK
  <2> HIDE DEF D
  <2>3. QED BY <2>1, <2>2, StillReady
<1>4. CASE i' = i + 1
  <2>1. ASSUME NEW k \in i' .. Len(pollfds') PROVE Fresh(k)'
    <3>1. k \in i .. Len(pollfds) /\ k \in 1 .. Len(pollfds) /\ k # i
      BY <1>1, <1>2, <1>4
    <3>2. pollfds[k].fd \in D
      <4>1. pollfds[k].fd # fd
        BY <1>1, <3>1, DistinctEntries DEF PollInv
      <4>2. pollfds[k].fd \in PolledFd
        BY <3>1, EntryFacts DEF Pollfd
      <4>3. QED BY <4>1, <4>2
    <3>3. Fresh(k)
      BY <1>1, <3>1 DEF PollInv, ReadinessFresh
    <3> HIDE DEF D
    <3>4. QED BY <1>2, <1>3, <3>2, <3>3 DEF StaysReady, Fresh
  <2>2. QED BY <2>1 DEF ReadinessFresh
<1>5. CASE i' # i + 1
  BY <1>5 DEF HandleMessage, Exit, ReadinessFresh, Running
<1>6. QED BY <1>4, <1>5

LEMMA FreshStep ==
  ASSUME TypeOK, UsersAreConnections, PollInv, [Next]_vars, ArrayStays
  PROVE  ReadinessFresh'
<1>1. CASE QuietStep
  BY <1>1, FreshAfterQuiet
<1>2. CASE Poll
  <2>1. ASSUME NEW k \in 1 .. Len(pollfds) PROVE Fresh(k)'
    <3>1. /\ pollfds'[k].fd = pollfds[k].fd
          /\ pollfds'[k].revents = PollResult(pollfds[k].fd)
          /\ UNCHANGED <<backlog, conn, inbox>>
      BY <1>2, PollKeepsEntries
    <3>2. QED BY <3>1 DEF Fresh, PollResult, Readable, HungUp, Gone
  <2>2. i' = 1 /\ Len(pollfds') = Len(pollfds)
    BY <1>2, PollKeepsEntries
  <2>3. QED BY <2>1, <2>2 DEF ReadinessFresh
<1>3. ASSUME NEW fd \in Fd, AcceptClient(fd) PROVE ReadinessFresh'
  BY <1>3, FreshAfterAccept
<1>4. CASE HandleHangUp \/ \E fd \in Fd : HandleEof(fd)
  BY <1>4, FreshAfterTermination
<1>5. ASSUME NEW fd \in Fd, HandleMessage(fd) PROVE ReadinessFresh'
  BY <1>5, FreshAfterMessage
<1>6. QED
  BY <1>1, <1>2, <1>3, <1>4, <1>5 DEF Next, ServerNext, ServerRuns, QuietStep

(* append doubles the block, delete halves it only down to the initial     *)
(* size.                                                                   *)
LEMMA SizeStep ==
  ASSUME TypeOK, PollInv, [Next]_vars
  PROVE  NeverSmaller'
<1>0. capacity \in Nat /\ capacity >= InitialCapacity /\ InitialCapacity \in Nat
  BY PollfdArrayAssumption DEF PollInv, NeverSmaller
<1>1. CASE UNCHANGED capacity
  BY <1>0, <1>1 DEF NeverSmaller
<1>2. ASSUME NEW fd \in Fd, AcceptClient(fd) PROVE NeverSmaller'
  <2>1. capacity' = capacity \/ capacity' = 2 * capacity
    BY <1>2 DEF AcceptClient, pollfd_array_append
  <2>2. QED BY <1>0, <2>1 DEF NeverSmaller
<1>3. ASSUME NEW fd, handle_client_termination(fd) PROVE NeverSmaller'
  <2>1. \/ capacity' = capacity
        \/ capacity' = capacity \div 2 /\ capacity \div 2 >= InitialCapacity
    BY <1>3 DEF handle_client_termination, pollfd_array_delete, MayShrink
  <2>2. capacity \div 2 \in Nat
    BY <1>0, SMT
  <2>3. QED BY <1>0, <2>1, <2>2 DEF NeverSmaller
<1>4. CASE QuietStep \/ Poll \/ \E fd \in Fd : HandleMessage(fd)
  BY <1>1, <1>4, QuietKeepsArrays DEF Poll, HandleMessage, arrays
<1>5. QED
  BY <1>2, <1>3, <1>4 DEF Next, ServerNext, ServerRuns, QuietStep, HandleHangUp, HandleEof

-----------------------------------------------------------------------------
(* The parts together are inductive.                                       *)
LEMMA PollInvariant ==
  ASSUME ArrayStays
  PROVE  Spec => []PollInv
<1>1. TypeOK /\ UsersAreConnections /\ PollInv /\ [Next]_vars => PollInv'
  BY RegistryStep, ListenerStep, FreshStep, SizeStep DEF PollInv
<1>2. QED BY <1>1, PollInit, TypeCorrect, UsersMatchConnections, PTL DEF Spec

(* If no append moves the array, the poll array always has the listening   *)
(* socket first and every connected client once, whatever order clients    *)
(* come and leave in.                                                      *)
THEOREM RegistryCorrect ==
  ASSUME ArrayStays
  PROVE  Spec => []Registry
<1>1. PollInv => Registry
  BY DEF PollInv
<1>2. QED BY <1>1, PollInvariant, PTL

(* If no append moves the array, what poll() reported of an entry still    *)
(* holds when the loop reaches it, so neither accept() nor recv() makes    *)
(* the only thread wait.                                                   *)
THEOREM ReportsStayTrue ==
  ASSUME ArrayStays
  PROVE  Spec => []ReadinessFresh
<1>1. PollInv => ReadinessFresh
  BY DEF PollInv
<1>2. QED BY <1>1, PollInvariant, PTL

(* If no append moves the array, the server never finds a user missing or  *)
(* twice in its table, nor fails to receive: what ends it is a client that *)
(* leaves at the wrong moment, a resource that runs out or a failed poll().*)
(* When one does move it, the checks can end it.                           *)
THEOREM ChecksNeverFire ==
  ASSUME ArrayStays
  PROVE  Spec => []OnlyEnvironmentStopsServer
<1>1. Init => OnlyEnvironmentStopsServer
  BY DEF Init, OnlyEnvironmentStopsServer
<1>2. ASSUME TypeOK, UsersAreConnections, PollInv, OnlyEnvironmentStopsServer,
             [Next]_vars
      PROVE  OnlyEnvironmentStopsServer'
  <2> USE DEF OnlyEnvironmentStopsServer
  <2>1. CASE Poll \/ PollFails \/ Skip \/ AcceptFails \/ ClientNext \/ UNCHANGED vars
    BY <1>2, <2>1 DEF Poll, PollFails, Skip, AcceptFails, Exit, ClientNext, Connect, ClientSend,
         ClientRead, ClientClose, vars, process
  <2>2. CASE SendStep
    BY <1>2, <2>2 DEF SendStep, Send, SendAfterFin, SendFails, NextReceiver, Exit
  <2>3. CASE RecvFails
    <3>1. i \in 1 .. Len(pollfds) /\ Current.fd # Listener
          /\ (Current.fd \in Fd => conn[Current.fd] = "free")
      BY <1>2, <2>3, EntryFacts DEF RecvFails, Scanning, AtClient, TypeOK
    <3>2. Current.fd \in DOMAIN users
      BY <1>2, <3>1, DistinctEntries DEF PollInv, Current
    <3>3. QED BY <1>2, <3>1, <3>2 DEF UsersAreConnections
  <2>4. ASSUME NEW fd \in Fd, AcceptClient(fd) PROVE OnlyEnvironmentStopsServer'
    BY <1>2, <2>4, AcceptedIsNew
  <2>5. CASE HandleHangUp \/ \E fd \in Fd : HandleEof(fd)
    BY <1>2, <2>5, TerminatedIsClient DEF handle_client_termination
  <2>6. ASSUME NEW fd \in Fd, HandleMessage(fd) PROVE OnlyEnvironmentStopsServer'
    <3>1. i \in 1 .. Len(pollfds) /\ Current.fd = fd /\ fd # Listener
      BY <1>2, <2>6, EntryFacts
      DEF HandleMessage, AtClient, ReadyAt, Scanning, TypeOK
    <3>2. fd \in DOMAIN users
      BY <1>2, <3>1, DistinctEntries DEF PollInv, Current
    <3>3. QED BY <1>2, <2>6, <3>2 DEF HandleMessage, user_table_find
  <2>7. QED
    BY <1>2, <2>1, <2>2, <2>3, <2>4, <2>5, <2>6 DEF Next, ServerNext, ServerRuns
<1>3. QED
  BY <1>1, <1>2, PollInvariant, TypeCorrect, UsersMatchConnections, PTL DEF Spec
=============================================================================
