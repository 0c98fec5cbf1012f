-------------------------- MODULE ServerRefinement --------------------------
(***************************************************************************)
(* The server implements the chat service: a handler's messages count as   *)
(* given out when the handler decides on them, the sends are stuttering    *)
(* steps.  And it is the server of ChatRooms, in which clients and server  *)
(* are put together: there a pass is the entries left to look at, and a    *)
(* message is who it is from.                                              *)
(***************************************************************************)
EXTENDS ServerProperties

Service == INSTANCE ChatService WITH
  User <- Fd,
  Room <- RoomId,
  Asked <- RoomRequests,
  Name <- NewNames,
  Unnamed <- Anonymous,
  Capacity <- MaxUsersPerRoom,
  Nowhere <- InvalidRoom,
  Id <- 1 .. MaxSent,
  where <- [fd \in DOMAIN users |-> users[fd].room],
  name <- [fd \in DOMAIN users |-> users[fd].name],
  live <- {fd \in Fd : conn[fd] = "open"},
  asks <- inbox,
  mail <- [fd \in Fd |-> Committed(fd)],
  up <- Running

(***************************************************************************)
(* server.c's loop, tables and sends amount to the service: users enter    *)
(* and leave rooms of limited size, everyone in a room gets each message   *)
(* posted there, every request is answered, and when the server dies at    *)
(* most the message it was sending is lost.                                *)
(***************************************************************************)
ImplementsService == Service!Spec

-----------------------------------------------------------------------------
(* Entries of the pass not yet looked at, and what poll() reported of them. *)
Ahead == {pollfds[k] : k \in i .. Len(pollfds)}

ReadyAhead == {e.fd : e \in {a \in Ahead : a.revents = {"IN"}}}

HupAhead == {e.fd : e \in {a \in Ahead : "HUP" \in a.revents}}

RoomOfUser == [fd \in DOMAIN users |-> users[fd].room]

(* What is being sent, without its contents.  Server counts messages, so   *)
(* here each of them takes one unit of a buffer.                           *)
Outgoing ==
  CASE msg.type = "CHAT" -> [type |-> "CHAT", from |-> msg.from, size |-> 1]
    [] msg.type = "REPLY" -> [type |-> "REPLY", size |-> 1]
    [] OTHER -> msg

Asked == Requests(1 .. MaxSent, RoomRequests, NewNames)

One == [m \in Asked |-> 1]

Together == INSTANCE ChatRooms WITH
  Typed <- Asked,
  Size <- One,
  EchoSize <- One,
  ReplySize <- 1,
  up <- Running,
  ready <- ReadyAhead,
  hup <- HupAhead,
  room <- RoomOfUser,
  msg <- Outgoing,
  inq <- inbox,
  unread <- [f \in Fd |-> [k \in 1 .. unread[f] |-> 1]],
  todo <- [fd \in Fd |-> {}],
  sending <- [fd \in Fd |-> NoMessage]

(***************************************************************************)
(* Every step of the server, with its poll array edited in the middle of a *)
(* pass and its tables in two places, is a step of the server of ChatRooms *)
(* or changes nothing there: the simpler server leaves nothing out that    *)
(* server.c's loop does.                                                   *)
(***************************************************************************)
ServerTakesPart == [][process' # process => [Together!ServerNext]_(Together!vars)]_vars
=============================================================================
