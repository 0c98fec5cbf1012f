------------------------------- MODULE Server -------------------------------
(***************************************************************************)
(* The chat server (server.c): a single thread that polls its sockets and, *)
(* in one pass over the poll array, accepts a connection, handles one      *)
(* message of each ready client, and clears up after clients that left.    *)
(*                                                                         *)
(* One action is one iteration of the inner for loop of main, except that  *)
(* each sendall of a handler is an action of its own (SendStep): it is     *)
(* where the server waits on a client, and clients come and go meanwhile.  *)
(* Between any two actions the kernel and the client programs may act.     *)
(***************************************************************************)
EXTENDS Rooms, PollfdArray, Messages, FiniteSets

CONSTANTS
  Fd,             \* the descriptors accept() may return (RLIMIT_NOFILE)
  Listener,       \* the descriptor of the listening socket
  NewNames,       \* names users type
  RoomRequests,   \* room ids users ask for, a subset of 0 .. 255
  BacklogLimit,   \* BACKLOG_LIMIT
  SockBuf,        \* messages the socket buffers towards a client hold
  MaxConn,        \* bound of the model: connections ever made
  MaxSent         \* bound of the model: messages clients ever send

ASSUME ServerAssumption ==
  /\ Listener \notin Fd
  /\ RoomRequests \subseteq 0 .. 255
  /\ BacklogLimit \in Nat
  /\ SockBuf \in Nat \ {0}
  /\ MaxConn \in Nat /\ MaxSent \in Nat

VARIABLES
  \* the server process
  i,         \* position of the inner loop in pollfds
  users,     \* the user table
  rooms,     \* the room array
  msg,       \* the message a handler is sending, or NoMessage
  to,        \* the clients msg must still be sent to, in order
  status,    \* "running", or why the process ended
  \* the kernel, per descriptor
  backlog,   \* connections waiting to be accepted
  conn,      \* "free", "open", or how the peer left: "fin" or "rst"
  inbox,     \* messages received from the client and not yet read
  outbox,    \* everything sent on the connection (a history)
  unread,    \* how many of outbox the client has not read
  \* bounds of the model
  nconn, nsent

arrays == <<pollfds, capacity>>
process == <<pollfds, capacity, i, users, rooms, msg, to, status>>
kernel == <<backlog, conn, inbox, outbox, unread>>
vars == <<process, kernel, nconn, nsent>>

Names == NewNames \cup {Anonymous}
Running == status = "running"
Gone(fd) == conn[fd] \in {"fin", "rst"}

Init ==
  /\ pollfds = <<NewEntry(Listener)>>
  /\ capacity = InitialCapacity
  /\ i = 2
  /\ users = << >>
  /\ rooms = room_array_init
  /\ msg = NoMessage
  /\ to = << >>
  /\ status = "running"
  /\ backlog = 0
  /\ conn = [fd \in Fd |-> "free"]
  /\ inbox = [fd \in Fd |-> << >>]
  /\ outbox = [fd \in Fd |-> << >>]
  /\ unread = [fd \in Fd |-> 0]
  /\ nconn = 0
  /\ nsent = 0

-----------------------------------------------------------------------------
(***************************************************************************)
(* The clients, as the server's kernel sees them.                          *)
(***************************************************************************)
Connect ==
  /\ Running /\ nconn < MaxConn /\ backlog < BacklogLimit
  /\ backlog' = backlog + 1
  /\ nconn' = nconn + 1
  /\ UNCHANGED <<process, conn, inbox, outbox, unread, nsent>>

(* A client sends a message; a chat message's id is its number. *)
ClientSend(fd) ==
  /\ Running /\ nsent < MaxSent /\ conn[fd] = "open"
  /\ nsent' = nsent + 1
  /\ \E m \in Requests({nsent'}, RoomRequests, NewNames) :
       inbox' = [inbox EXCEPT ![fd] = Append(@, m)]
  /\ UNCHANGED <<process, backlog, conn, outbox, unread, nconn>>

ClientRead(fd) ==
  /\ Running /\ unread[fd] > 0
  /\ unread' = [unread EXCEPT ![fd] = @ - 1]
  /\ UNCHANGED <<process, backlog, conn, inbox, outbox, nconn, nsent>>

(* The client program ends.  The kernel closes its socket: with a FIN, or  *)
(* with a RST when data it never read is left behind.                      *)
ClientClose(fd) ==
  /\ Running /\ conn[fd] = "open"
  /\ conn' = [conn EXCEPT ![fd] = IF unread[fd] > 0 THEN "rst" ELSE "fin"]
  /\ outbox' = [outbox EXCEPT ![fd] = << >>]
  /\ unread' = [unread EXCEPT ![fd] = 0]
  /\ UNCHANGED <<process, backlog, inbox, nconn, nsent>>

-----------------------------------------------------------------------------
(* exit(), or death by a signal. *)
Exit(reason) ==
  /\ status' = reason
  /\ msg' = NoMessage
  /\ to' = << >>

-----------------------------------------------------------------------------
(***************************************************************************)
(* poll().                                                                 *)
(***************************************************************************)
Readable(fd) ==
  \/ fd = Listener /\ backlog > 0
  \/ fd \in Fd /\ conn[fd] # "free" /\ (inbox[fd] # << >> \/ Gone(fd))

HungUp(fd) == fd \in Fd /\ conn[fd] = "rst"

PollResult(fd) ==
  {e \in Revents : \/ e = "IN" /\ Readable(fd)
                   \/ e = "HUP" /\ HungUp(fd)}

(* poll() returns -1, while it waits or at once (EINTR, ENOMEM).           *)
PollFails ==
  /\ Running /\ to = << >> /\ i > Len(pollfds)
  /\ Exit("poll_failed")
  /\ UNCHANGED <<arrays, i, users, rooms, kernel, nconn, nsent>>

Poll_LastClientLeftOut ==
  /\ Running /\ to = << >> /\ i > Len(pollfds)
  /\ pollfds' = [k \in DOMAIN pollfds |->
       IF k > 1 /\ k = Len(pollfds) THEN pollfds[k]
       ELSE [pollfds[k] EXCEPT !.revents = PollResult(pollfds[k].fd)]]
  /\ \E k \in DOMAIN pollfds' : pollfds'[k].revents # {}
  /\ i' = 1
  /\ UNCHANGED <<capacity, users, rooms, msg, to, status, kernel, nconn, nsent>>

(* The inner loop is over and poll() returns with at least one event. *)
Poll ==
  /\ Running /\ to = << >> /\ i > Len(pollfds)
  /\ pollfds' = [k \in DOMAIN pollfds |->
                  [pollfds[k] EXCEPT !.revents = PollResult(pollfds[k].fd)]]
  /\ \E k \in DOMAIN pollfds' : pollfds'[k].revents # {}
  /\ i' = 1
  /\ UNCHANGED <<capacity, users, rooms, msg, to, status, kernel, nconn, nsent>>

(* The inner loop looks at entry i, once the last handler has returned. *)
Scanning == Running /\ to = << >> /\ i <= Len(pollfds)

Current == pollfds[i]

(* The entry is fd's, and poll() reported input but no hang-up. *)
ReadyAt(fd) ==
  /\ Scanning /\ Current.fd = fd
  /\ "IN" \in Current.revents /\ "HUP" \notin Current.revents

Skip ==
  /\ Scanning /\ Current.revents = {}
  /\ i' = i + 1
  /\ UNCHANGED <<arrays, users, rooms, msg, to, status, kernel, nconn, nsent>>

-----------------------------------------------------------------------------
(***************************************************************************)
(* The listening socket is ready: handle_new_client.                       *)
(***************************************************************************)
AtListener == ReadyAt(Listener) /\ backlog > 0

AcceptClient(fd) ==
  /\ AtListener
  /\ conn[fd] = "free"
  /\ pollfd_array_append(fd)
  /\ backlog' = backlog - 1
  /\ conn' = [conn EXCEPT ![fd] = "open"]
  /\ IF user_table_find(users, fd)
     THEN Exit("duplicate_user") /\ UNCHANGED <<i, users>>
     ELSE /\ users' = user_table_add(users, fd)
          /\ i' = i + 1
          /\ UNCHANGED <<msg, to, status>>
  /\ UNCHANGED <<rooms, inbox, outbox, unread, nconn, nsent>>

(* accept() finds no descriptor left, or the poll array cannot grow. *)
AcceptFails ==
  /\ AtListener
  /\ \/ (\A fd \in Fd : conn[fd] # "free") /\ Exit("no_descriptor")
     \/ (\E fd \in Fd : conn[fd] = "free") /\ AppendFails /\ Exit("no_memory")
  /\ UNCHANGED <<arrays, i, users, rooms, kernel, nconn, nsent>>

-----------------------------------------------------------------------------
(***************************************************************************)
(* A client has left: handle_client_termination.                           *)
(***************************************************************************)
RoomsWithout_Forgotten(fd) == rooms

(* The rooms once fd has left the room it is in, if any. *)
RoomsWithout(fd) ==
  [r \in RoomId |-> IF users[fd].room = r
                    THEN room_remove_user(rooms[r], fd) ELSE rooms[r]]

(* i is not advanced: the last entry of the poll array has taken the place *)
(* of this one.                                                            *)
handle_client_termination(fd) ==
  /\ pollfd_array_delete(i)
  /\ IF user_table_find(users, fd)
     THEN /\ rooms' = RoomsWithout(fd)
          /\ users' = user_table_delete(users, fd)
          /\ conn' = [conn EXCEPT ![fd] = "free"]
          /\ inbox' = [inbox EXCEPT ![fd] = << >>]
          /\ outbox' = [outbox EXCEPT ![fd] = << >>]
          /\ unread' = [unread EXCEPT ![fd] = 0]
          /\ UNCHANGED <<msg, to, status, backlog>>
     ELSE Exit("unknown_user") /\ UNCHANGED <<users, rooms, kernel>>
  /\ UNCHANGED <<i, nconn, nsent>>

HandleHangUp ==
  /\ Scanning
  /\ "HUP" \in Current.revents
  /\ handle_client_termination(Current.fd)

-----------------------------------------------------------------------------
(***************************************************************************)
(* A client's socket is readable: handle_client_message.  recvall returns  *)
(* -1 on a bad descriptor, 0 at end of stream (or after a reset), else a   *)
(* whole message; with nothing to read it waits.                           *)
(***************************************************************************)
AtClient(fd) == fd # Listener /\ ReadyAt(fd)

RecvFails ==
  /\ Scanning /\ AtClient(Current.fd)
  /\ Current.fd \in Fd => conn[Current.fd] = "free"
  /\ Exit("recv_failed")
  /\ UNCHANGED <<arrays, i, users, rooms, kernel, nconn, nsent>>

HandleEof_InputDropped(fd) ==
  /\ AtClient(fd) /\ Gone(fd)
  /\ handle_client_termination(fd)

HandleEof_Ignored(fd) ==
  /\ AtClient(fd) /\ inbox[fd] = << >> /\ Gone(fd)
  /\ i' = i + 1
  /\ UNCHANGED <<arrays, users, rooms, msg, to, status, kernel, nconn, nsent>>

HandleEof(fd) ==
  /\ AtClient(fd) /\ inbox[fd] = << >> /\ Gone(fd)
  /\ handle_client_termination(fd)

(* send_reply_message to fd; the send itself is SendStep. *)
Reply(fd, reply, room) ==
  /\ msg' = ReplyMessage(reply, room)
  /\ to' = <<fd>>

handle_chat_message_SkipsFirst(fd, m) ==
  /\ IF users[fd].room = InvalidRoom
     THEN Reply(fd, "not_in_room", InvalidRoom)
     ELSE LET room == users[fd].room IN
          /\ msg' = ChatMessage(m.id, fd, users[fd].name, room)
          /\ to' = Tail(rooms[room])
  /\ UNCHANGED <<users, rooms>>

handle_chat_message(fd, m) ==
  /\ IF users[fd].room = InvalidRoom
     THEN Reply(fd, "not_in_room", InvalidRoom)
     ELSE LET room == users[fd].room IN
          /\ msg' = ChatMessage(m.id, fd, users[fd].name, room)
          /\ to' = rooms[room]
  /\ UNCHANGED <<users, rooms>>

handle_name_message(fd, m) ==
  /\ users' = [users EXCEPT ![fd].name = m.name]
  /\ Reply(fd, "named", InvalidRoom)
  /\ UNCHANGED rooms

(* handle_join_message's four ways through.  The user leaves its room      *)
(* before the new one is found to be full.                                 *)
JoinNoSuchRoom(fd, r) ==
  /\ ~RoomExists(r)
  /\ Reply(fd, "no_such_room", r)
  /\ UNCHANGED <<users, rooms>>

JoinSameRoom(fd, r) ==
  /\ RoomExists(r) /\ users[fd].room = r
  /\ Reply(fd, "already_in", r)
  /\ UNCHANGED <<users, rooms>>

JoinFullRoom_RoomNotReset(fd, r) ==
  /\ RoomExists(r) /\ users[fd].room # r /\ RoomIsFull(rooms[r])
  /\ rooms' = RoomsWithout(fd)
  /\ Reply(fd, "full", r)
  /\ UNCHANGED users

JoinFullRoom(fd, r) ==
  /\ RoomExists(r) /\ users[fd].room # r /\ RoomIsFull(rooms[r])
  /\ rooms' = RoomsWithout(fd)
  /\ users' = [users EXCEPT ![fd].room = InvalidRoom]
  /\ Reply(fd, "full", r)

JoinRoom(fd, r) ==
  /\ RoomExists(r) /\ users[fd].room # r /\ ~RoomIsFull(rooms[r])
  /\ rooms' = [RoomsWithout(fd) EXCEPT ![r] = room_add_user(@, fd)]
  /\ users' = [users EXCEPT ![fd].room = r]
  /\ Reply(fd, "joined", r)

handle_join_message(fd, m) ==
  \/ JoinNoSuchRoom(fd, m.room)
  \/ JoinSameRoom(fd, m.room)
  \/ JoinFullRoom(fd, m.room)
  \/ JoinRoom(fd, m.room)

(* What recvall takes from the connection, oldest first. *)
Received_NewestFirst(fd) == inbox[fd][Len(inbox[fd])]

Received(fd) == Head(inbox[fd])

HandleMessage(fd) ==
  /\ AtClient(fd) /\ conn[fd] # "free" /\ inbox[fd] # << >>
  /\ inbox' = [inbox EXCEPT ![fd] = Tail(@)]
  /\ IF user_table_find(users, fd)
     THEN LET m == Received(fd) IN
          /\ \/ m.type = "CHAT" /\ handle_chat_message(fd, m)
             \/ m.type = "NAME" /\ handle_name_message(fd, m)
             \/ m.type = "JOIN" /\ handle_join_message(fd, m)
          /\ i' = i + 1
          /\ UNCHANGED status
     ELSE Exit("unknown_user") /\ UNCHANGED <<i, users, rooms>>
  /\ UNCHANGED <<arrays, backlog, conn, outbox, unread, nconn, nsent>>

-----------------------------------------------------------------------------
(***************************************************************************)
(* sendall of msg to the next receiver.  It waits while the socket buffers *)
(* are full.  A send to a client that has left is accepted and answered by *)
(* a RST; once that has arrived a send raises SIGPIPE, which ends the      *)
(* server, or returns -1, on which handle_chat_message makes the server    *)
(* exit and send_reply_message only logs.                                  *)
(***************************************************************************)
NextReceiver ==
  /\ to' = Tail(to)
  /\ msg' = IF Len(to) = 1 THEN NoMessage ELSE msg
  /\ UNCHANGED status

Send(fd) ==
  /\ conn[fd] = "open" /\ unread[fd] < SockBuf
  /\ outbox' = [outbox EXCEPT ![fd] = Append(@, msg)]
  /\ unread' = [unread EXCEPT ![fd] = @ + 1]
  /\ NextReceiver
  /\ UNCHANGED conn

SendAfterFin(fd) ==
  /\ conn[fd] = "fin"
  /\ \E c \in {"fin", "rst"} : conn' = [conn EXCEPT ![fd] = c]
  /\ NextReceiver
  /\ UNCHANGED <<outbox, unread>>

SendFails(fd) ==
  /\ \/ conn[fd] = "rst" /\ Exit("sigpipe")
     \/ /\ conn[fd] \in {"rst", "free"}
        /\ IF msg.type = "CHAT" THEN Exit("chat_undeliverable") ELSE NextReceiver
  /\ UNCHANGED <<conn, outbox, unread>>

SendStep ==
  /\ Running /\ to # << >>
  /\ LET fd == Head(to) IN Send(fd) \/ SendAfterFin(fd) \/ SendFails(fd)
  /\ UNCHANGED <<arrays, i, users, rooms, backlog, inbox, nconn, nsent>>

-----------------------------------------------------------------------------
(* What the server does when poll() works. *)
ServerRuns ==
  \/ Poll \/ Skip \/ AcceptFails \/ HandleHangUp \/ RecvFails \/ SendStep
  \/ \E fd \in Fd : AcceptClient(fd) \/ HandleEof(fd) \/ HandleMessage(fd)

ServerNext == ServerRuns \/ PollFails

ClientNext ==
  \/ Connect
  \/ \E fd \in Fd : ClientSend(fd) \/ ClientRead(fd) \/ ClientClose(fd)

Next == ServerNext \/ ClientNext

Spec == Init /\ [][Next]_vars

(* The server process is scheduled; a client that has not left reads what  *)
(* it is sent.  Nobody has to connect, send or leave, nor poll() to fail.  *)
Fairness ==
  /\ WF_vars(ServerRuns)
  /\ \A fd \in Fd : WF_vars(ClientRead(fd))

FairSpec == Spec /\ Fairness
=============================================================================
