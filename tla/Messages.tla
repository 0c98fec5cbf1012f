------------------------------ MODULE Messages ------------------------------
(***************************************************************************)
(* The messages of types/messages/ as values: what a client sends, what    *)
(* the server sends.  Text is abstracted to an identity, so that two       *)
(* messages are never confused; a chat message on its way out also carries *)
(* its sender and room, which the wire format does not, so that properties *)
(* can speak of them.  How the fields travel is modelled in Codec.         *)
(***************************************************************************)

(* From a client: chat_message, join_message, name_message. *)
ChatRequest(id) == [type |-> "CHAT", id |-> id]

JoinRequest(room) == [type |-> "JOIN", room |-> room]

NameRequest(name) == [type |-> "NAME", name |-> name]

Requests(Ids, RoomIds, Names) ==
  {ChatRequest(id) : id \in Ids}
    \cup {JoinRequest(r) : r \in RoomIds}
    \cup {NameRequest(n) : n \in Names}

(* From the server: chat_message and reply_message. *)
ChatMessage(id, from, name, room) ==
  [type |-> "CHAT", id |-> id, from |-> from, name |-> name, room |-> room]

ReplyMessage(reply, room) == [type |-> "REPLY", reply |-> reply, room |-> room]

(* The sentences of handle_*_message in server.c. *)
Replies == {"not_in_room", "named", "no_such_room", "already_in", "full", "joined"}

ServerMessages(Ids, Fds, Names, RoomIds) ==
  [type : {"CHAT"}, id : Ids, from : Fds, name : Names, room : RoomIds]
    \cup [type : {"REPLY"}, reply : Replies, room : RoomIds]

(* No message is being sent. *)
NoMessage == [type |-> "NONE"]
=============================================================================
