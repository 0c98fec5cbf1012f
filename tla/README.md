# chat-rooms: a TLA+ verification of the chat server and client

chat-rooms is a chat application in C: a server with a fixed number of rooms,
and a terminal client.  Both are single-threaded programs around `poll()`, with
blocking sockets.  This directory models the two programs, alone and together,
and the algorithms under them, and checks the models with TLC.  TLAPS proves for
every value of the constants the safety of each component that a run checks:
of the server and its arrays, of framing, of the wire format and of the client;
that the server implements the service its users see, and framing a channel of
messages; that server and client are those of the composed model; and that a
standstill of the composed model is for good.

Contents: [1 the system](#1-the-system), [2 the plan](#2-the-plan),
[3 modules](#3-modules-and-the-code), [4 runs](#4-runs),
[5 proofs](#5-proofs), [6 findings](#6-where-code-and-documents-disagree),
[7 limits](#7-what-is-not-modelled).

## 1 The system

| component | state | operations | what makes it correct |
|---|---|---|---|
| server loop and handlers (`server.c`) | the loop index `i` of the pass over the poll array; in a handler, the message being sent and the receivers left | `main`'s inner loop, `handle_new_client`, `handle_client_message`, `handle_chat_message`, `handle_name_message`, `handle_join_message`, `send_reply_message`, `handle_client_termination` | tables agree; nobody is skipped or handled twice although the array is edited during the pass; a report of `poll()` is still true when used; messages go once, in one order, to those in the room |
| poll array (`data_structures/pollfd_array.c`) | `fds`, `len`, `capacity` | init, append (doubles), delete (swaps in the last, halves) | holds what was appended; never larger than its block; gives memory back |
| rooms (`types/room.c`, `data_structures/room_array.c`) | per room `users`, `num_users` | `room_array_get_room`, `room_add_user`, `room_remove_user` | no user twice, none over the limit |
| user table (`data_structures/user_table.c`) | user id (a descriptor) to room and name | add, delete, find | exactly the open connections, although descriptors are reused |
| framing (`utils/net_utils.c`) | per call: bytes sent, bytes received, length read | `sendall`, `recvall` | whole messages, in order, whatever pieces the stream comes in |
| message formats (`types/messages/*.c`) | none | serialize and deserialize of four types, `get_message_type` | what is read is what was written; the length in the header is the length on the wire |
| client loop and input (`client.c`) | loop index, stdio's read-ahead buffer | `handle_input`, `execute_command`, `handle_server_message`, `send_*_message` | what is typed is sent once, in order, up to `/exit`; messages are printed before a close is reported, unless the connection was reset or a pipe has ended |
| clients and server together | the socket buffers between them, what each poll reported | both loops and both `sendall`s | unless the two ends come to wait for each other or a user never finishes a line, every `sendall` returns and everyone is attended to |
| start-up, addresses, logging, vendored uthash, Makefile | | | not modelled, section 7 |

**Interaction.**  A client and the server exchange messages over one TCP
connection, framed by `sendall` and `recvall`, laid out by the codec.  The
server's poll array, user table and rooms are three records of the same
clients: a connection's descriptor is its key in each, and each handler updates
them one after the other.  The kernel acts between any two steps of a process:
connections queue, data arrives, peers leave, descriptors are reused.

**What is hard.**  The server edits the poll array while it iterates over it;
it acts on `revents` that were written before other handlers ran and waited;
the user table and the rooms are updated by separate calls; descriptors come
back right after `close()`; clients leave in the middle of a broadcast;
`sendall` waits for the slowest client, and client and server may come to wait
for each other; a send to a client that left may kill the process;
`reallocarray` may move the array or fail; TCP cuts the stream anywhere; `fgets`
reads ahead of what `poll()` sees, and waits for the rest of a line of which
`poll()` saw a part; a client that closed in an orderly way is turned into one
that was reset by what is sent to it; names may be longer than their field.  Every such place is listed in `PROJECT.json`
under `hazards`, with the property aimed at it.

## 2 The plan

The order is by what matters most to a user of the system.

1. **The server** over its data structures (`Arrays`, `PollfdArray`, `Rooms`,
   `Messages`, `Server`): safety, delivery and liveness; the abstract service
   it implements (`ChatService`, `ServerRefinement`).  *Done.*
2. **The parts on their own**: the poll array under any caller
   (`PollfdArraySpec`), framing byte by byte (`Framing`), the wire format
   (`Codec`), the client (`Client`).  *Done.*
3. **Proofs of safety** for every value of the constants: types, tables, the
   registry of connections, readiness, receivers, the poll array; the
   standstill of `ChatRooms`; order and isolation of chat messages; framing,
   the wire format and the client.  *Done.*
4. **Client and server together** (`ChatRooms`, with `ServerRefinement` and
   `ClientRefinement` tying it to the two programs): bounded buffers in both
   directions, who waits for whom, liveness without assuming that clients read.
   *Done.*
5. **Framing as a channel** (`Channel`): whole messages in order, which is what
   the queues of the other models take for granted, implemented by `Framing`.
   *Done.*
6. **Proofs of refinement**: the server implements `ChatService`, framing
   implements `Channel`, and server and client take the steps of `ChatRooms`.
   *Done.*
7. **What is left**: four hazards have no property: the room number that wraps
   (`client.c:202`), the line that is never finished (`client.c:270`), and the
   exits of `handle_new_client` when no descriptor (`server.c:134`) or no memory
   (`server.c:140`) is left.  All are modelled; their notes in `PROJECT.json` say
   why nothing is promised of them.

## 3 Modules and the code

| module | what it models |
|---|---|
| `Arrays` | an array with its length as a sequence; delete by swapping in the last element, used by both arrays of the server |
| `PollfdArray` | the poll array's operations as actions; `PollfdArraySpec` drives them with any legal calls |
| `Rooms` | rooms and user table as operators on data |
| `Messages` | messages as records; text is an identity |
| `Server` | `server.c` |
| `ServerProperties` | what the server promises |
| `ChatService`, `ServerRefinement` | the service seen by users, and the mapping of the server to it |
| `Framing`, `Channel` | `sendall` and `recvall` over one direction of a connection; the channel of whole messages they make |
| `Codec` | the four message layouts, byte by byte |
| `Client` | `client.c` and its properties |
| `ChatRooms` | all clients and the server, joined by bounded buffers |
| `ClientRefinement` | the mapping of the client to a client of `ChatRooms` |
| `MC*` | constants, symmetry sets and inputs for TLC |
| `*Theorems`, `*Proofs` | section 5 |

An operator named `X_Y` is a faulty variant of `X` (`RoomsWithout_Forgotten`,
`MayShrink_AtCapacity`): the mistake Y in the code X models.  Nothing uses it in
the model.  `PROJECT.json` names for each property a variant that breaks it, so
that each is known to depend on the code.

**Server.**  An action is one iteration of `main`'s inner loop for the entry
`pollfds[i]`, the whole handler included, except that each `sendall` is a step
of its own (`SendStep`), because there the process waits while the world moves.
`Poll` starts a pass; `Skip`, `AcceptClient`, `AcceptFails`, `HandleHangUp`,
`HandleEof`, `RecvFails`, `HandleMessage` are what may happen at an entry.
`handle_client_termination` leaves `i` alone, as the code's `i--` does.  C
index k is position k + 1; `i > Len(pollfds)` is the end of a pass.
`ServerNext` is `ServerRuns`, the steps of a server whose `poll()` works, or
`PollFails`, the exit when it returns -1.  The kernel's variables say per descriptor what the server's system calls would
find: `conn` (free, open, left with a FIN, left with a RST), `inbox`, the
unread part `unread` of `outbox`.  A client that leaves with data unread sends
a RST, as Linux does.  A send to a client that left with a FIN is accepted and
turns the connection into one that was reset, at once or later; to one that was
reset it raises SIGPIPE or, if the error was already reported by another call,
returns -1.  `outbox` is a history: what was sent on the current connection.

**Poll array.**  `reallocarray` may extend the block in place, move it, or
fail.  The code keeps using the old pointer for the new entry after a move, so
the new entry is then any of `StaleEntries`, which is what reading
uninitialised memory may give: an open descriptor, or none.  (The write to the
freed block may have any effect at all; the model considers only the stale
entry.)

**Client.**  `typed` is what the kernel has of standard input, `stdio` what
`fgets` has read ahead.  A terminal gives a line per read, a pipe everything it
has.  A line over 999 characters is taken in pieces.  `begun` says that a part
of an unfinished line is there (`BeginLine`: from a pipe, or by Ctrl-D in
mid-line).  `poll()` reports it, and `fgets` then waits for the newline, a full
buffer or the end of the input: no step of the client is enabled while it is
`InFgets`.  From a pipe the part is read along with the lines before it
(`BegunAfterRead`), so that `poll()` no longer sees it.

**Framing.**  A byte is the pair of its message and offset, so any mix-up
shows.  If an unfinished header is decoded, the length is any of
`GarbageLengths`.

The channel that `Framing` implements (`ImplementsChannel`) is what the other
modules use as a queue: `inbox`, `outbox` with `unread`, `inq`.

**Codec.**  What fits its field is a string of `Names`, `Texts` or `Replies`.
`TypedNames` are what `execute_command` lets through, up to 100 characters,
for a field of 50 bytes; a field that more bytes are copied into is `Undefined`
afterwards.

**ChatRooms.**  A standstill involves both programs, and a bound on the number
of messages would end it or hide it.  So `ChatRooms` counts no messages: its state
is finite although clients type, come and go for ever.  Buffers hold `SockBuf`
units, and messages differ in how many they take: a line (`Size`), its echo,
which carries a time and a name besides (`EchoSize`), a reply (`ReplySize`).  A
message is put into a buffer and taken out of it whole.  `sendall` and `recvall`
pass it in parts, which `Framing` models; what decides who waits is that each
returns only when all of it has passed.  The model drops what does not decide
that: contents of messages, names, and the order of
entries in a pass (the sets `ready` and `hup` are the entries left to look at;
a client's `todo` likewise, the server first).  The order in which a chat
message goes to a room's members decides whom the server waits for first; any
order is possible, as it depends on who left before.  That nothing the
programs do has been left out is checked and proved: `ServerTakesPart` (run
`server_safety`) says that each step of `Server` is a step of the server half
or a stutter, `ClientTakesPart` (run `client`) the same of `Client`.  `Server`
and `Client` count messages, so these two are about messages of one unit.  They
are statements about steps; fairness is stated of `ChatRooms` itself.

**ChatService.**  Users arrive, ask, depart; the service answers requests one
at a time, in the order each user made them, and gives a chat message to all
live users of a room at once; whether its author is among them is left open, as
code and comments disagree (section 6).  The mapping counts a message as given when the
handler has decided on it, so sends are stuttering steps; when the server dies
in the middle of a broadcast, the receivers left miss that one message, and the
abstract service says so (`Stop`).

## 4 Runs

Each run of `PROJECT.json` asks one question.  All have `CHECK_DEADLOCK FALSE`:
processes end (by `/exit`, a closed connection, a failure), and the numbers of
connections and messages are bounded, so each model really may stop.

| run | question | bounds |
|---|---|---|
| `server_safety` | do the registry and the reports stay right, is input lost only by a reset, and is every step one the service, and the server of `ChatRooms`, could take? | 3 descriptors and connections, 2 rooms of 2 places, 3 requests, capacity from 1, resizes that fail |
| `server_delivery` | do the tables agree, and who gets which chat message, in which order? | 2 clients, 2 rooms, names, 4 requests, buffers of 2, resizes that move the array |
| `server_liveness` | is everyone told where they are, full rooms included, and is everyone served, and cleared up, in the end? | 2 connections, 2 rooms of 1 place, a room that does not exist, 3 requests, buffers of 1 |
| `pollfd_array` | the array under any calls, with resizes that fail | 6 descriptors, capacity from 1 |
| `framing` | whole messages from any pieces: a channel? | 4 messages of 3, 5 or 8 bytes, header 2, buffer 6 |
| `codec` | is what is written read back? | string lengths next to 0, 50, 100, 255/256, 1000; typed names up to 100; times around 2^31 and 2^32 |
| `client` | does what is typed arrive, is what is sent printed? | a terminal or a pipe, 3 lines, one of them of two pieces, any of them unfinished for a while, 2 messages, buffers of 1 |
| `chat_rooms` | what can make a process wait for ever, and is everyone attended to otherwise? | 2 descriptors, 1 room, all messages of one unit, buffers of 1 each way; any number of messages and connections |
| `server_lost_client`, `server_departure`, `framing_split` | section 6 | |
| `chat_rooms_standstill` | section 6 | 1 client, lines of 1 and 2 units, echoes and replies of 2, buffers of 2 |

**Why the bounds are enough to be interesting.**  Three clients are the least
with which a swap on delete moves a third entry; with capacity from 1 the array
grows twice and shrinks; rooms of two places are the least in which somebody
else hears, rooms of one place make it possible to leave one for another that is
full with three requests (`server_liveness`); connections equal to or above the
descriptors make `accept()` fail and descriptors be reused; a buffer of one
message makes `sendall` wait; a wire of 6 bytes is smaller than a message of 8.
In `chat_rooms` the buffers of one message are the tightest, so the ones most
easily full, and two clients let one wait on account of the other; messages that
differ in size, with which one client is enough for a standstill, are in
`chat_rooms_standstill` and, for `StandstillLasts`, in the proof.  The properties
of `chat_rooms` also hold where chat messages, echoes and replies take two units,
a `/join` one and buffers two (333,576 states), at twice the time.  In
`server_safety` and `server_delivery` clients' descriptors are interchangeable
(symmetry); the runs with liveness properties use no symmetry.  Every invariant and action
property of the passing runs is proved for every size (section 5), so what rests
on these bounds alone is liveness.

**Fairness.**  `WF(ServerRuns)`: the server process is scheduled by its
operating system, and it is one sequential loop, so fairness of its next step
is fairness of the process.  `PollFails` is left out: `poll()` may fail but need
not.  In `Server` alone, `WF(ClientRead(fd))` assumes that a client that has
not left reads what it is sent.  `ChatRooms` does not assume it: there
`WF(ClientRuns(fd))` says that a client process is scheduled too, and reading
follows from its loop (`EverySendEnds`), except at a standstill or in `fgets`.
`ClientRuns` leaves out what needs the user: that `poll()` returns for standard
input, and that `fgets`, once called, gets the end of its line
(`ClientTakesInput`).  Where a property needs the latter it says so itself:
`LinesFinished` (no client is in `handle_input` from some point on for ever) is
the premise of `EverySendEnds`, `EveryoneAttended` and `ServerHeard`.  It is an
assumption about users: without it the client waits in `fgets` for ever, and the
server in `sendall` behind it.  Nobody is assumed to connect, type, send or leave.  A client
process that is stopped, or another program that never reads, stops the server
for everyone: `sendall` and `recvall` have no timeout.  In `Client`,
`WF(ClientRuns)` is the client's process and `WF(ServerRead)` a server that
reads; in `Framing` both ends keep calling.  Exit of the server satisfies the
liveness properties: they promise service while it runs.

**The standstill.**  Server and client are both in `sendall`, each to the other,
and neither message fits.  Two clients can bring it about, when what the server
is stuck on is another's chat; so can one client alone.  An echo is longer than
the line it answers, so the echoes of short lines fill the way back and the
server waits in `sendall`; the short line it last took has made room, but not
enough for the long one the client is sending now.  `StandstillLasts` says that
it is for good: whatever the other clients do, the server takes no step, until
that one client's process ends.  `EverySendEnds` and `EveryoneAttended` say that
a standstill and a line that is never finished are the only ways to wait for
ever.

## 5 Proofs

Proved by TLAPS, for every value of the constants that the assumptions below
allow: any number of rooms up to 255 and any room size up to 255, any
descriptors, backlog, buffers, messages, lines and strings.

| theorem | property |
|---|---|
| `ServerProofs!TypeCorrect` | `TypeOK` |
| `ServerProofs!UsersMatchConnections` | `UsersAreConnections` |
| `ServerProofs!RoomsConsistent` | `RoomConsistency` |
| `ServerProofs!RecipientsStay` | `RecipientsAreMembers` |
| `ServerProofs!RegistryCorrect` (+) | `Registry` |
| `ServerProofs!ReportsStayTrue` (+) | `ReadinessFresh` |
| `ServerProofs!ChecksNeverFire` (+) | `OnlyEnvironmentStopsServer` |
| `ServiceProofs!SendersInOrder` | `SenderFifo` |
| `ServiceProofs!OneOrder` | `SameOrder` |
| `ServiceProofs!ClientsKnowTheirRoom` | `ToldRoom` |
| `ServiceProofs!RoomsAreApart` | `RoomIsolation` |
| `ServiceProofs!OnlyResetsLoseInput` (+) | `OnlyAResetLosesInput` |
| `ServiceProofs!ServiceImplemented` (+) | `ImplementsService`: `Server` implements `ChatService` |
| `ServiceProofs!ServerIsAServer` (+) | `ServerTakesPart`: `Server` is the server of `ChatRooms` |
| `PollfdArrayProofs!TypeCorrect`, `CapacitySafe` | `TypeOK`, `CapacityCovers` |
| `PollfdArrayProofs!MemoryGivenBack` | `CapacityTight` |
| `PollfdArrayProofs!ArrayIsTheSet` (+) | `HoldsWhatWasAppended` |
| `FramingProofs!TypeCorrect` | `TypeOK` |
| `FramingProofs!WholeMessages` (++) | `ReceivedWhole` |
| `FramingProofs!ChannelImplemented` (++) | `Framing` implements `Channel`, but for fairness |
| `CodecProofs!ReadAsWritten` | `RoundTrip` |
| `CodecProofs!HeaderCountsTheBytes` | `HeaderTellsLength` |
| `CodecProofs!FieldsEndWithTheMessage` | `FieldsInMessage` |
| `ClientProofs!TypeCorrect` | `TypeOK` |
| `ClientProofs!TypedIsSent` | `SentIsWhatWasTyped` |
| `ClientProofs!CloseIsSeenLast` | `PrintsAllBeforeClose` |
| `ClientProofs!NothingAfterExit` | `ExitIsLast` |
| `ClientProofs!EndLosesNothing` | `EndOfInputLosesNothing` |
| `ClientProofs!ClientIsAClient` | `ClientTakesPart`: `Client` is a client of `ChatRooms` |
| `ChatRoomsProofs!TypeCorrect` | `TypeOK` |
| `ChatRoomsProofs!NothingEndsAStandstill` | `StandstillLasts` |

**Assumptions.**  Each module names what it assumes of its constants:
`RoomsAssumption` (rooms and places are 1 to 255, what the one-byte ids and
counts hold), `PollfdArrayAssumption`, `ServerAssumption` (the listening socket
is not a client's descriptor; buffers hold a message), `DescriptorAssumption`,
`ChatRoomsAssumption` (the same of `ChatRooms`, that each message fits an empty
buffer, and that a process has finitely many descriptors), `FramingAssumption` (a message is longer than its header,
which fits the buffer), `ClientAssumption` (lines are not empty),
`CodecAssumption` (a string fits its field, except a name the user types; a time
is eight bytes).

(+) assumes that no append moves the poll array's block (`ArrayStays`, in
`PollfdArrayProofs` `"moved" \notin ReallocResults`): `reallocarray` finds room
in place, or all clients fit the initial block (five entries, so the listening
socket and four clients).  Beyond four clients `reallocarray` promises nothing
of the kind: this is a condition on the run, not a fact about the code.  Without
it the registry is lost, as `server_lost_client` shows, and with it all that
rests on each client being polled once.

(++) assumes that a header arrives in one piece (`~SplitHeaders`).  Without it
these are false, as `framing_split` shows.

**Argument.**  `ArraysTheorems`: swapping in the last element keeps elements
distinct and takes out exactly one.  `ServerProofs` begins with the rooms: in one without
repetitions the search of `room_remove_user` ends at the user's slot, so
leaving takes out that user.  From these, step by step:

- `UsersAreConnections` is inductive given the types.
- `RoomConsistency` needs it: a descriptor that is accepted must not be in the
  table, hence in no room, before it is added.
- `RecipientsAreMembers` needs both: the list comes from a room, and the table
  does not change until it is used up.
- `Registry` is not inductive.  That the entry `handle_client_termination`
  deletes is a client's, and not the listening socket's, depends on what
  `poll()` reported of it still being true; that a report stays true depends on
  no other entry having the same descriptor.  `PollInv` puts the two together
  with the fact that the listening socket never hangs up.
- `OnlyEnvironmentStopsServer` follows from `PollInv`: the client at hand is in
  the table, and its descriptor is open.
- `CapacityTight` (no run checks it; it speaks of resizes that do not fail)
  needs that a capacity is the initial one doubled some number
  of times, which `Sizes` says without exponentiation, as the least set closed
  under doubling: from another capacity the array might never shrink back.
- `StandstillLasts` is about a step from a standstill: every action of the
  server needs `to` to be empty or the message to fit, every action of that
  client needs its own `sendall` to have returned, and no action of another
  client touches the state of this connection.  What is left is `ClientLeaves`.
- Order and rooms (`ServiceProofs`) are about what is *committed* to a client:
  its `outbox` and, while a handler still has it to send to, the message in
  hand.  Then only the handler's decision extends it, and a send does not.  This
  needs `SendingInv`: the receivers left are all different, and a reply has
  one.  `OrderInv` (each sender's messages in order, any two clients in the same
  order) is inductive with `WaitingInv`: what waits in a client's `inbox` has
  rising numbers, shared with no other `inbox`, and comes after all of that
  client's that anyone was sent.  `RoomInv` puts `ToldRoom` and `RoomIsolation`
  together: a chat message goes to those in the table's room, and the table's
  room is what each was told.
- `OnlyAResetLosesInput` is about a step: a client is cleared up on a
  reported hang-up, which by `PollInv` is still true, so its connection was
  reset; or on the end of its stream, which comes when nothing is left to read.
  An orderly close becomes a reset only by the server's own send to that client.
- `ServiceImplemented` goes through the server's actions.  A handler's decision
  is the service's step, with the message given to all live members at once;
  the sends after it are stutters, because what is committed does not change.
  A step that ends the process is `Stop`, with the receivers not yet sent to as
  those who miss the message.
- `ServerIsAServer` does the same for `ChatRooms`.  The entries of a pass at or
  after the loop index become the sets `ready` and `hup`; the lemmas about
  `Ahead` show that taking, skipping or deleting an entry takes just that
  descriptor out of them, although a delete swaps another entry into its place.
- Framing: the stream sent so far is the concatenation of the messages.
  `StreamInv` gives it offsets, and says that the wire holds a contiguous part
  of the stream, which begins where what `recvall` has of its message ends.
  Hence the bytes it puts together are those of one message, and the length it
  decodes is that message's.  The channel's queue is the messages sent and not
  yet returned.
- The wire format: a lemma per layer gives the position of each byte (a number
  in two or four bytes, a string with its terminator, a counted string, the
  frame, the fields of a chat), and `ReadBack` that a copy up to the first
  terminator is the string, if it fits its field.  `PathInv` carries this from step to step.
- The client: `InputInv` says that the pieces handled, those in stdio and those
  still typed make up what was typed, in order, and `SentInv` that what is sent is
  the requests of the handled pieces, less the one in hand, or a prefix of them
  once the server is gone.  That flattening and filtering a sequence go through
  appending to it is an induction on its length, made with the well-foundedness
  of the naturals (the least counterexample), as an induction theorem that takes
  a predicate cannot be used.  `ClientIsAClient` needs `UnreadInv`: what the
  server has not read was sent.  `CloseIsSeenLast` and `EndLosesNothing` need
  `HangInv`: a reported hang-up is a reset connection or a pipe that has ended.

**Only model-checked.**  Liveness (`Departed`, `Served`, `EverySendEnds`,
`EveryoneAttended`, `RecvallReturns`, `SendallReturns`, `InputHandled`,
`ServerHeard`), and the fairness of `Channel` in `ImplementsChannel`: they rest
on fairness, which is out of the prover's reach.  So are the violations of
section 6, each of which is one behaviour TLC finds.

## 6 Where code and documents disagree

Runs that expect a violation, each of one property quoted from the repository:

- `server_lost_client`: `pollfd_array_append` writes through the pointer it read
  before the resize, so a client can be in the table and never be polled.
- `server_departure`: a client that leaves while it is being sent something
  ends the server for everyone (SIGPIPE, or the exit on a failed chat send).
- `framing_split`: `recvall` takes the length from one `recv()`, which may
  return less than a header.
- `chat_rooms_standstill`: `sendall` handles "partial sends so the entire
  messsage is delivered" (`net_utils.h:12`), but the server and a client, with
  no other client there, can both be in it, each waiting for the other to read.

Other divergences, which a look at the cited lines settles, are in the models as
the code has them, and have no run:

- `handle_chat_message` sends a chat message to everyone in the room, its author
  included (`server.c:235`); its comment (`server.c:202-203`) and the client's
  (`client.c:220`) say "all other".  The client relies on the code: it erases
  the line typed and shows the echo.  No property requires the echo:
  `ChatService` leaves it open.
- A client that sends and then closes in an orderly way can lose what it sent:
  what another one's broadcast sends it turns the close into a reset, and `main`
  looks at POLLHUP first and clears it up (`server.c:483`).  "Send messages to
  everyone in the room.", "Exit the application cleanly." (`README.md:13`, `15`)
  suggest otherwise.  `OnlyAResetLosesInput` says when it can happen.
- The client prints nothing, and holds up the server's `sendall` and with it
  everyone, while `fgets` waits for the rest of a line of which `poll()` saw a
  part (`client.c:270`).  `LinesFinished` says where that matters.
- A name is "max 50 bytes" (`name_message.h:24`), but `execute_command` reads up
  to 100 characters (`%100s`, `client.c:188`) into an array of 50 and sends them
  to be copied into a field of the same size.  In `Codec` such a field is
  `Undefined`, and `RoundTrip` is about names that fit.
- The timestamp takes eight bytes (`chat_message.c:41-43`), not the documented
  four (`chat_message.h:28`).
- `/join 257` joins room 1: `%hhd` keeps the low byte (`client.c:202`).
- Lines `fgets` reads ahead from a pipe, or the rest of a long line, wait for
  more input (`client.c:270`): poll() does not see the stdio buffer.  So
  `InputHandled` promises an empty stdio buffer only at a terminal whose lines
  fit.

## 7 What is not modelled

- Start-up, name resolution and logging: straight-line calls that exit on
  failure before there is any state to keep right, or output only.  uthash is
  the function it implements.
- Failure of the small `malloc` calls of messages and users: not seen on the
  systems the program targets before the process is killed.
- Commands longer than the buffer `sscanf` fills in the client, and what the
  bytes of a long name do beyond leaving its field undefined.
- What a write to the freed poll array block may do beyond losing the entry.
- A connection reset before `accept()`: counted as reset right after it.
- `send()` in chunks, inside `Server`, `Client` and `ChatRooms`: a message waits
  until there is room for all of it.  Chunks are in `Framing`.  With chunks the
  buffers of a standstill are full to the byte instead of to the unit, with a
  part of each message already in them.
- Where a client waiting to be accepted fills its buffers before it is
  accepted: it starts to send when it has been.
- 32-bit overflow of `len` and `capacity`: descriptors run out long before.
- What the kernel does with more connections than the backlog: the client's
  side of a refused connection.
