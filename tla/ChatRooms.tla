----------------------------- MODULE ChatRooms -----------------------------
(***************************************************************************)
(* Clients and server together: every client.c and the one server.c, each  *)
(* a single thread, joined by socket buffers that hold SockBuf units in    *)
(* each direction; messages differ in size.  What matters is who waits for *)
(* whom, so nothing counts messages: the state is finite while clients     *)
(* send and come and go for ever.                                          *)
(*                                                                         *)
(* A pass over a poll array is the set of its entries still to be looked   *)
(* at.  ServerRefinement and ClientRefinement show that the steps of       *)
(* Server and of Client are steps of the two halves of this module.        *)
(***************************************************************************)
EXTENDS Rooms, Messages, SequencesExt

CONSTANTS
  Fd,            \* the descriptors accept() may return
  Listener,      \* the descriptor of the listening socket
  Typed,         \* the messages users may type
  Size,          \* the units each of them takes in a buffer
  EchoSize,      \* the units a chat message takes with its author's name
  ReplySize,     \* the units a reply takes
  BacklogLimit,  \* BACKLOG_LIMIT
  SockBuf        \* units the socket buffers hold, in each direction

ASSUME ChatRoomsAssumption ==
  /\ IsFiniteSet(Fd)
  /\ Listener \notin Fd
  /\ BacklogLimit \in Nat
  /\ SockBuf \in Nat \ {0}
  /\ Size \in [Typed -> 1 .. SockBuf] /\ EchoSize \in [Typed -> 1 .. SockBuf]
  /\ ReplySize \in 1 .. SockBuf

VARIABLES
  \* the server process
  up,       \* the process has not ended
  ready,    \* descriptors reported readable and not yet looked at
  hup,      \* descriptors reported hung up and not yet looked at
  room,     \* the room of each user in the user table, or InvalidRoom
  msg,      \* what a handler is sending, or NoMessage
  to,       \* the clients msg must still be sent to, in order
  \* the kernel, per connection
  backlog,  \* connections waiting to be accepted
  conn,     \* "free", "open", or how the client left: "fin" or "rst"
  inq,      \* what the server has not received: per unit, its message
  unread,   \* what the client has not received: per unit, its message's size
  \* the client processes
  todo,     \* inputs reported ready and not yet looked at
  sending   \* the message sendall is waiting to send, or NoMessage

server == <<up, ready, hup, room, msg, to>>
kernel == <<backlog, conn, inq, unread>>
clients == <<todo, sending>>
vars == <<server, kernel, clients>>

(* Messages to clients, without their contents. *)
ChatFrom(fd, size) == [type |-> "CHAT", from |-> fd, size |-> size]
Reply == [type |-> "REPLY", size |-> ReplySize]

(* A buffer with n units of x, if they fit, and what the next n units of a *)
(* buffer leave: a message is put there and taken whole.  sendall may copy *)
(* it in parts, but returns, like recvall, when all of it has passed.      *)
Fits(buffer, n) == Len(buffer) + n <= SockBuf
Put(buffer, x, n) == buffer \o [k \in 1 .. n |-> x]
Take(buffer, n) == SubSeq(buffer, n + 1, Len(buffer))

Gone(fd) == conn[fd] \in {"fin", "rst"}
Members(r) == {fd \in DOMAIN room : room[fd] = r}

Init ==
  /\ up = TRUE
  /\ ready = {} /\ hup = {}
  /\ room = << >>
  /\ msg = NoMessage /\ to = << >>
  /\ backlog = 0
  /\ conn = [fd \in Fd |-> "free"]
  /\ inq = [fd \in Fd |-> << >>]
  /\ unread = [fd \in Fd |-> << >>]
  /\ todo = [fd \in Fd |-> {}]
  /\ sending = [fd \in Fd |-> NoMessage]

-----------------------------------------------------------------------------
(***************************************************************************)
(* The server.                                                             *)
(***************************************************************************)
Scanning == up /\ to = << >>

Exit == up' = FALSE /\ msg' = NoMessage /\ to' = << >>

HungUp == {fd \in Fd : conn[fd] = "rst"}

Readable ==
  {fd \in Fd : conn[fd] # "free" /\ (inq[fd] # << >> \/ Gone(fd))}
    \cup {fd \in {Listener} : backlog > 0}

ServerPoll_ClientLeftOut ==
  /\ Scanning /\ ready = {} /\ hup = {}
  /\ \E left \in SUBSET DOMAIN room :
       /\ Cardinality(left) <= 1
       /\ hup' = HungUp \ left
       /\ ready' = (Readable \ HungUp) \ left
  /\ ready' \cup hup' # {}
  /\ UNCHANGED <<up, room, msg, to, kernel, clients>>

(* The last pass is over and poll() returns with an event; a hang-up takes *)
(* precedence over input.                                                  *)
ServerPoll ==
  /\ Scanning /\ ready = {} /\ hup = {}
  /\ hup' = HungUp
  /\ ready' = Readable \ HungUp
  /\ ready' \cup hup' # {}
  /\ UNCHANGED <<up, room, msg, to, kernel, clients>>

PollFails ==
  /\ Scanning /\ ready = {} /\ hup = {}
  /\ Exit
  /\ UNCHANGED <<ready, hup, room, kernel, clients>>

AtListener == Scanning /\ Listener \in ready /\ backlog > 0

Accept(fd) ==
  /\ AtListener
  /\ conn[fd] = "free"
  /\ conn' = [conn EXCEPT ![fd] = "open"]
  /\ backlog' = backlog - 1
  /\ ready' = ready \ {Listener}
  /\ room' = [u \in DOMAIN room \cup {fd} |-> IF u = fd THEN InvalidRoom ELSE room[u]]
  /\ UNCHANGED <<up, hup, msg, to, inq, unread, clients>>

(* No descriptor, or no memory for the poll array. *)
AcceptFails ==
  /\ AtListener
  /\ Exit
  /\ UNCHANGED <<ready, hup, room, kernel, clients>>

(* handle_client_termination, after a hang-up or at the end of the input. *)
Terminate(fd) ==
  /\ Scanning
  /\ fd \in hup \/ (fd \in ready /\ Gone(fd) /\ inq[fd] = << >>)
  /\ ready' = ready \ {fd}
  /\ hup' = hup \ {fd}
  /\ room' = [u \in DOMAIN room \ {fd} |-> room[u]]
  /\ conn' = [conn EXCEPT ![fd] = "free"]
  /\ inq' = [inq EXCEPT ![fd] = << >>]
  /\ unread' = [unread EXCEPT ![fd] = << >>]
  /\ UNCHANGED <<up, msg, to, backlog, clients>>

(* The room a /join leaves the user in: none if the room is full. *)
RoomAfterJoin(fd, r) ==
  IF ~RoomExists(r) \/ room[fd] = r THEN room[fd]
  ELSE IF Cardinality(Members(r)) = MaxUsersPerRoom THEN InvalidRoom
  ELSE r

(* A chat message goes to the room's members in the order the room lists   *)
(* them, which depends on who left before; anything else is replied to.    *)
HandleMessage(fd) ==
  LET m == Head(inq[fd])
      posted == m.type = "CHAT" /\ room[fd] # InvalidRoom
  IN
  /\ Scanning /\ fd \in ready /\ conn[fd] # "free" /\ inq[fd] # << >>
  /\ ready' = ready \ {fd}
  /\ inq' = [inq EXCEPT ![fd] = Take(@, Size[m])]
  /\ msg' = IF posted THEN ChatFrom(fd, EchoSize[m]) ELSE Reply
  /\ to' \in IF posted THEN SetToSeqs(Members(room[fd])) ELSE {<<fd>>}
  /\ room' = [room EXCEPT ![fd] = IF m.type = "JOIN" THEN RoomAfterJoin(fd, m.room) ELSE @]
  /\ UNCHANGED <<up, hup, backlog, conn, unread, clients>>

NextReceiver ==
  /\ to' = Tail(to)
  /\ msg' = IF Len(to) = 1 THEN NoMessage ELSE msg
  /\ UNCHANGED up

Send(fd) ==
  /\ conn[fd] = "open" /\ Fits(unread[fd], msg.size)
  /\ unread' = [unread EXCEPT ![fd] = Put(@, msg.size, msg.size)]
  /\ NextReceiver
  /\ UNCHANGED conn

SendAfterFin(fd) ==
  /\ conn[fd] = "fin"
  /\ \E c \in {"fin", "rst"} : conn' = [conn EXCEPT ![fd] = c]
  /\ NextReceiver
  /\ UNCHANGED unread

(* SIGPIPE, or -1: then a chat message ends the server, a reply does not. *)
SendFails(fd) ==
  /\ conn[fd] = "rst"
  /\ Exit \/ (msg.type = "REPLY" /\ NextReceiver)
  /\ UNCHANGED <<conn, unread>>

(* One sendall of a handler: it waits while the message does not fit. *)
SendStep ==
  /\ up /\ to # << >>
  /\ LET fd == Head(to) IN Send(fd) \/ SendAfterFin(fd) \/ SendFails(fd)
  /\ UNCHANGED <<ready, hup, room, backlog, inq, clients>>

(* What the server does when poll() works. *)
ServerRuns ==
  \/ ServerPoll \/ AcceptFails \/ SendStep
  \/ \E fd \in Fd : Accept(fd) \/ Terminate(fd) \/ HandleMessage(fd)

ServerNext == ServerRuns \/ PollFails

-----------------------------------------------------------------------------
(***************************************************************************)
(* The clients.  A client is known by its connection's descriptor in the   *)
(* server; it starts to send when it has been accepted.                    *)
(***************************************************************************)
Connect ==
  /\ up /\ backlog < BacklogLimit
  /\ backlog' = backlog + 1
  /\ UNCHANGED <<server, conn, inq, unread, clients>>

Active(fd) == up /\ conn[fd] = "open"

Looping_WhileSending(fd) == Active(fd)

(* The loop is free to go on: no sendall is waiting. *)
Looping(fd) == Active(fd) /\ sending[fd] = NoMessage

ClientPoll_InputOnly(fd) ==
  /\ Looping(fd) /\ todo[fd] = {}
  /\ todo' = [todo EXCEPT ![fd] = {"stdin"}]
  /\ UNCHANGED <<server, kernel, sending>>

(* poll() returns with an event; whether the user typed is open. *)
ClientPoll(fd) ==
  /\ Looping(fd) /\ todo[fd] = {}
  /\ \E inputs \in (SUBSET {"server", "stdin"}) \ {{}} :
       /\ "server" \in inputs <=> unread[fd] # << >>
       /\ todo' = [todo EXCEPT ![fd] = inputs]
  /\ UNCHANGED <<server, kernel, sending>>

(* handle_server_message; the server's entry is the first. *)
ClientReads(fd) ==
  /\ Looping(fd) /\ "server" \in todo[fd] /\ unread[fd] # << >>
  /\ unread' = [unread EXCEPT ![fd] = Take(@, Head(@))]
  /\ todo' = [todo EXCEPT ![fd] = @ \ {"server"}]
  /\ UNCHANGED <<server, backlog, conn, inq, sending>>

(* The client is in handle_input, where fgets waits for the end of a line  *)
(* of which poll() may have seen only the beginning.                       *)
AtInput(fd) == Looping(fd) /\ todo[fd] = {"stdin"}

(* handle_input: a message to send, or a line that makes none. *)
ClientTakesInput(fd) ==
  /\ AtInput(fd)
  /\ todo' = [todo EXCEPT ![fd] = {}]
  /\ \E m \in Typed \cup {NoMessage} : sending' = [sending EXCEPT ![fd] = m]
  /\ UNCHANGED <<server, kernel>>

ClientSends_WithoutRoom(fd) ==
  /\ Active(fd) /\ sending[fd] # NoMessage
  /\ inq' = [inq EXCEPT ![fd] = Put(@, sending[fd], Size[sending[fd]])]
  /\ sending' = [sending EXCEPT ![fd] = NoMessage]
  /\ UNCHANGED <<server, backlog, conn, unread, todo>>

(* sendall: it waits while the message does not fit. *)
ClientSends(fd) ==
  /\ Active(fd) /\ sending[fd] # NoMessage
  /\ Fits(inq[fd], Size[sending[fd]])
  /\ inq' = [inq EXCEPT ![fd] = Put(@, sending[fd], Size[sending[fd]])]
  /\ sending' = [sending EXCEPT ![fd] = NoMessage]
  /\ UNCHANGED <<server, backlog, conn, unread, todo>>

(* /exit, the end of the input, or a kill, which may come at any time.     *)
(* Data it has not read makes the kernel close with a RST.                 *)
ClientLeaves(fd) ==
  /\ Active(fd)
  /\ conn' = [conn EXCEPT ![fd] = IF unread[fd] # << >> THEN "rst" ELSE "fin"]
  /\ unread' = [unread EXCEPT ![fd] = << >>]
  /\ todo' = [todo EXCEPT ![fd] = {}]
  /\ sending' = [sending EXCEPT ![fd] = NoMessage]
  /\ UNCHANGED <<server, backlog, inq>>

ClientNext(fd) ==
  \/ ClientPoll(fd) \/ ClientReads(fd) \/ ClientTakesInput(fd)
  \/ ClientSends(fd) \/ ClientLeaves(fd)

Next == ServerNext \/ Connect \/ \E fd \in Fd : ClientNext(fd)

Spec == Init /\ [][Next]_vars

(* What a client does without its user: poll() returns by itself only when *)
(* the server has sent something, fgets when the line is finished.         *)
ClientRuns(fd) ==
  \/ unread[fd] # << >> /\ ClientPoll(fd)
  \/ ClientReads(fd) \/ ClientSends(fd)

(* Every process is scheduled.  No user has to connect, type, finish a     *)
(* line or leave, and nobody is assumed to read.                           *)
FairSpec == Spec /\ WF_vars(ServerRuns) /\ \A fd \in Fd : WF_vars(ClientRuns(fd))

-----------------------------------------------------------------------------
(* Type invariant. *)
TypeOK ==
  /\ up \in BOOLEAN
  /\ ready \subseteq Fd \cup {Listener} /\ hup \subseteq Fd
  /\ DOMAIN room \subseteq Fd
  /\ room \in [DOMAIN room -> RoomId \cup {InvalidRoom}]
  /\ to \in Seq(Fd)
  /\ msg \in {ChatFrom(fd, n) : fd \in Fd, n \in 1 .. SockBuf} \cup {Reply, NoMessage}
  /\ Len(to) > 0 => msg # NoMessage
  /\ backlog \in 0 .. BacklogLimit
  /\ conn \in [Fd -> {"free", "open", "fin", "rst"}]
  /\ inq \in [Fd -> Seq(Typed)] /\ \A fd \in Fd : Len(inq[fd]) <= SockBuf
  /\ unread \in [Fd -> Seq(1 .. SockBuf)] /\ \A fd \in Fd : Len(unread[fd]) <= SockBuf
  /\ todo \in [Fd -> SUBSET {"server", "stdin"}]
  /\ sending \in [Fd -> Typed \cup {NoMessage}]

(***************************************************************************)
(* The server is in sendall to a client that is in sendall to the server,  *)
(* and neither message fits the buffers between them.  One client alone    *)
(* can bring this about: the echoes of its short lines, longer than they   *)
(* are, fill the way back while its next line is too long for the room the *)
(* last short one has made.                                                *)
(***************************************************************************)
Standstill(fd) ==
  /\ to # << >> /\ Head(to) = fd
  /\ conn[fd] = "open" /\ ~Fits(unread[fd], msg.size)
  /\ sending[fd] # NoMessage /\ ~Fits(inq[fd], Size[sending[fd]])

SomeStandstill == \E fd \in Fd : Standstill(fd)

(***************************************************************************)
(* A standstill is for good: whatever the other clients do, the server     *)
(* takes no step, and only the end of that one client's process changes    *)
(* that (sendall has no time limit and nobody reads in the middle of one). *)
(***************************************************************************)
StandstillLasts ==
  [][\A fd \in Fd : Standstill(fd) =>
       UNCHANGED server /\ (Standstill(fd)' \/ conn'[fd] # "open")]_vars

(* Every user finishes the line its client has begun to read, or leaves. *)
LinesFinished == \A fd \in Fd : []<>~AtInput(fd)

(***************************************************************************)
(* Unless it comes to a standstill or a line is never finished, no sendall *)
(* waits for ever, though no client is assumed to read: a client reads     *)
(* again once its own sendall has returned, and a client's sendall returns *)
(* once the server's has.                                                  *)
(***************************************************************************)
ServerSendEnds == to # << >> ~> (to = << >> \/ SomeStandstill)

ClientSendEnds(fd) ==
  sending[fd] # NoMessage ~> (sending[fd] = NoMessage \/ ~up \/ SomeStandstill)

EverySendEnds ==
  LinesFinished => ServerSendEnds /\ \A fd \in Fd : ClientSendEnds(fd)

(***************************************************************************)
(* Unless it comes to a standstill or a line is never finished, a          *)
(* connection waiting is accepted, and a client that left is cleared up,   *)
(* although the others never stop typing: each entry is looked at once in  *)
(* a pass (server.c's main).                                               *)
(***************************************************************************)
EveryoneAttended ==
  LinesFinished =>
    /\ backlog > 0 ~> (backlog < BacklogLimit \/ ~up \/ SomeStandstill)
    /\ \A fd \in Fd : Gone(fd) ~> (conn[fd] = "free" \/ ~up \/ SomeStandstill)

(***************************************************************************)
(* net_utils.h:12: sendall handles partial sends "so the entire messsage   *)
(* is delivered".  So the two ends never wait in sendall for each other.   *)
(***************************************************************************)
NoStandstill == ~SomeStandstill
=============================================================================
