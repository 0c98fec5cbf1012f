-------------------------- MODULE ServerProperties --------------------------
(***************************************************************************)
(* What the chat server promises.  Unless stated otherwise a property is   *)
(* meant for the outcomes of reallocarray in which the block does not      *)
(* move; the run server_delivery has moves as well.                         *)
(***************************************************************************)
EXTENDS Server, FiniteSetsExt

(* Type invariant.  Room ids carried by messages are those clients ask for *)
(* or 0, chat ids the numbers of messages sent.                            *)
SentMessages ==
  ServerMessages(1 .. nsent, Fd, Names, RoomId \cup RoomRequests \cup {InvalidRoom})

Statuses == {"running", "duplicate_user", "unknown_user", "no_descriptor",
             "no_memory", "poll_failed", "recv_failed", "sigpipe",
             "chat_undeliverable"}

PolledFd == Fd \cup {Listener} \cup StaleFds

TypeOK ==
  /\ pollfds \in Seq(Pollfd(PolledFd))
  /\ capacity \in Nat
  /\ i \in Nat \ {0}
  /\ DOMAIN users \subseteq Fd
  /\ users \in [DOMAIN users -> [room : RoomId \cup {InvalidRoom}, name : Names]]
  /\ rooms \in [RoomId -> Seq(Fd)]
  /\ msg \in SentMessages \cup {NoMessage}
  /\ to \in Seq(Fd)
  /\ Len(to) > 0 => msg \in SentMessages
  /\ status \in Statuses
  /\ backlog \in 0 .. BacklogLimit
  /\ conn \in [Fd -> {"free", "open", "fin", "rst"}]
  /\ inbox \in [Fd -> Seq(Requests(1 .. nsent, RoomRequests, NewNames))]
  /\ outbox \in [Fd -> Seq(SentMessages)]
  /\ unread \in [Fd -> 0 .. SockBuf]
  /\ nconn \in 0 .. MaxConn
  /\ nsent \in 0 .. MaxSent

(***************************************************************************)
(* The user table and the room array, two records of the same fact, agree: *)
(* a user is listed exactly once in the room its entry names and in no     *)
(* other, a room lists only known users, and no room is over its limit     *)
(* (handle_join_message, handle_client_termination, room.c).               *)
(***************************************************************************)
RoomConsistency ==
  /\ \A r \in RoomId :
       /\ NoRepeats(rooms[r])
       /\ Len(rooms[r]) <= MaxUsersPerRoom
       /\ \A fd \in Fd :
            Occurs(fd, rooms[r]) <=> fd \in DOMAIN users /\ users[fd].room = r

(***************************************************************************)
(* The table has exactly the descriptors accept() returned and close() has *)
(* not released, so a descriptor used again finds no entry of its previous *)
(* owner.  A server that died of the duplicate itself is past this.        *)
(***************************************************************************)
UsersAreConnections == DOMAIN users = {fd \in Fd : conn[fd] # "free"}

(***************************************************************************)
(* The poll array holds the listening socket, first, and every connected   *)
(* client exactly once, whatever appends, swaps and resizes came before.   *)
(***************************************************************************)
Registry ==
  /\ Len(pollfds) > 0 /\ pollfds[1].fd = Listener
  /\ NoRepeats(Fds(pollfds))
  /\ \A k \in 2 .. Len(pollfds) : pollfds[k].fd \in DOMAIN users
  /\ \A fd \in DOMAIN users : Occurs(fd, Fds(pollfds))

(***************************************************************************)
(* When the inner loop reaches an entry, what poll() said of it still      *)
(* holds although other handlers ran, waited and moved entries since: an   *)
(* entry marked readable can be read without waiting (so the one thread    *)
(* never hangs in recv or accept), one marked hung up has hung up.         *)
(***************************************************************************)
Fresh(k) ==
  /\ "IN" \in pollfds[k].revents => Readable(pollfds[k].fd)
  /\ "HUP" \in pollfds[k].revents => HungUp(pollfds[k].fd)

ReadinessFresh == Running => \A k \in i .. Len(pollfds) : Fresh(k)

(***************************************************************************)
(* The consistency checks of server.c ("user already exists", "user not    *)
(* found", a receive error) never fire while no append moves the poll      *)
(* array: only a client that leaves, a resource that runs out or a failed  *)
(* poll() ends the server.                                                 *)
(***************************************************************************)
OnlyEnvironmentStopsServer ==
  status \notin {"duplicate_user", "unknown_user", "recv_failed"}

(***************************************************************************)
(* While a handler is sending, everyone still to receive has a descriptor  *)
(* that is not closed and, for a chat message, is in the room it was sent  *)
(* to: clients that leave meanwhile do not make the rest of the list stale.*)
(***************************************************************************)
RecipientsAreMembers ==
  \A k \in 1 .. Len(to) :
    /\ to[k] \in DOMAIN users /\ conn[to[k]] # "free"
    /\ msg.type = "CHAT" => users[to[k]].room = msg.room

-----------------------------------------------------------------------------
(* What the server has decided to send on fd: sent, or about to be.        *)
Committed(fd) ==
  IF conn[fd] = "open" /\ Occurs(fd, to) THEN Append(outbox[fd], msg) ELSE outbox[fd]

ChatsTo(fd) == {k \in DOMAIN Committed(fd) : Committed(fd)[k].type = "CHAT"}

(***************************************************************************)
(* Any two clients that both get two chat messages get them in the same    *)
(* order, and nobody gets one twice (handle_chat_message's loop over a     *)
(* room's members finishes before the next message is read).               *)
(***************************************************************************)
SameOrder ==
  \A f, g \in Fd :
    \A j, k \in ChatsTo(f) : j < k =>
      /\ Committed(f)[j].id # Committed(f)[k].id
      /\ ~ \E a, b \in ChatsTo(g) :
             /\ a < b
             /\ Committed(g)[a].id = Committed(f)[k].id
             /\ Committed(g)[b].id = Committed(f)[j].id

(***************************************************************************)
(* A receiver gets one sender's chat messages in the order they were sent, *)
(* also when the sender renames or changes room between them.              *)
(***************************************************************************)
SenderFifo ==
  \A f \in Fd : \A j, k \in ChatsTo(f) :
    j < k /\ Committed(f)[j].from = Committed(f)[k].from
      => Committed(f)[j].id < Committed(f)[k].id

(***************************************************************************)
(* A client that reads its replies knows where it is: the last reply to a  *)
(* /join tells the room the table has it in, "full" meaning none.          *)
(***************************************************************************)
JoinReplies(fd) ==
  {k \in DOMAIN Committed(fd) :
     /\ Committed(fd)[k].type = "REPLY"
     /\ Committed(fd)[k].reply \in {"already_in", "full", "joined"}}

RoomTold(fd) ==
  IF JoinReplies(fd) = {} THEN InvalidRoom
  ELSE LET last == Committed(fd)[Max(JoinReplies(fd))] IN
       IF last.reply = "full" THEN InvalidRoom ELSE last.room

ToldRoom == \A fd \in DOMAIN users : conn[fd] = "open" => users[fd].room = RoomTold(fd)

(***************************************************************************)
(* Nobody receives a chat message sent in a room it has not joined: every  *)
(* chat on a connection is for the room the latest join reply before it    *)
(* put the client in.                                                      *)
(***************************************************************************)
RoomAt(fd, n) ==
  LET J == {k \in JoinReplies(fd) : k < n} IN
  IF J = {} THEN InvalidRoom
  ELSE LET last == Committed(fd)[Max(J)] IN
       IF last.reply = "full" THEN InvalidRoom ELSE last.room

RoomIsolation ==
  \A fd \in Fd : \A n \in ChatsTo(fd) : Committed(fd)[n].room = RoomAt(fd, n)

(***************************************************************************)
(* A client is cleared up with messages of its own still unhandled only    *)
(* when its connection was reset: by the client, which left without        *)
(* reading all it was sent, or because the server sent it something after  *)
(* it had closed (handle_client_message reads on to the end of stream;     *)
(* main takes POLLHUP before POLLIN).                                      *)
(***************************************************************************)
OnlyAResetLosesInput ==
  [][\A fd \in Fd :
       /\ conn[fd] # "free" /\ conn'[fd] = "free" /\ inbox[fd] # << >>
            => conn[fd] = "rst"
       /\ conn[fd] = "fin" /\ conn'[fd] = "rst"
            => to # << >> /\ Head(to) = fd]_vars

-----------------------------------------------------------------------------
(***************************************************************************)
(* Liveness, while the server lives: a client that left is cleared up and  *)
(* a message that arrived is handled.                                      *)
(***************************************************************************)
Departed == \A fd \in Fd : Gone(fd) ~> (conn[fd] = "free" \/ ~Running)

Served == \A fd \in Fd : inbox[fd] # << >> ~> (inbox[fd] = << >> \/ ~Running)

-----------------------------------------------------------------------------
(***************************************************************************)
(* What the repository says of the server and the code does not do.        *)
(***************************************************************************)
(* pollfd_array.h:26: pollfd_array_append appends the descriptor it is     *)
(* given, so every client in the user table is polled.                     *)
EveryClientIsPolled ==
  Running => \A fd \in DOMAIN users : \E k \in 1 .. Len(pollfds) : pollfds[k].fd = fd

(* README.md:5: a user can "exit when they're done", and net_utils.h:18:   *)
(* sendall returns -1 on error; so a client that leaves while something is *)
(* being sent to it does not end the server.                               *)
DepartureIsHarmless == status \notin {"sigpipe", "chat_undeliverable"}
=============================================================================
