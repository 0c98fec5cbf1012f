-------------------------- MODULE ClientRefinement --------------------------
(***************************************************************************)
(* The client is a client of ChatRooms: the one with descriptor 1 of a     *)
(* server that is up.  A pass over its two entries is the set of those     *)
(* left to look at; a client that has ended has closed its connection.     *)
(***************************************************************************)
EXTENDS Client

Me == 1

Leaving == IF inbox # << >> THEN "rst" ELSE "fin"

Link == IF Running THEN "open" ELSE Leaving

Inq == SubSeq(sent, Len(sent) - unread + 1, Len(sent))

Unprinted == IF Running THEN [k \in DOMAIN inbox |-> 1] ELSE << >>

Todo ==
  {e \in {"server", "stdin"} :
     /\ Running
     /\ \/ e = "server" /\ i = 1 /\ revents[1] # {}
        \/ e = "stdin" /\ i \in 1 .. 2 /\ revents[2] # {}}

Sent == {Request(p) : p \in Pieces} \ {NoMessage}

(* Client counts messages, so each of them takes one unit of a buffer. *)
One == [m \in Sent |-> 1]

Together == INSTANCE ChatRooms WITH
  Fd <- {Me},
  Listener <- 0,
  Typed <- Sent,
  Size <- One,
  EchoSize <- One,
  ReplySize <- 1,
  BacklogLimit <- 0,
  NumRooms <- 1,
  MaxUsersPerRoom <- 1,
  up <- TRUE,
  ready <- {},
  hup <- {},
  room <- << >>,
  msg <- NoMessage,
  to <- << >>,
  backlog <- 0,
  conn <- [c \in {Me} |-> Link],
  inq <- [c \in {Me} |-> Inq],
  unread <- [c \in {Me} |-> Unprinted],
  todo <- [c \in {Me} |-> Todo],
  sending <- [c \in {Me} |-> sending]

(***************************************************************************)
(* As long as the server is there, every step of the client, whatever it   *)
(* has read ahead or is in the middle of, is a step of a client of         *)
(* ChatRooms or changes nothing there: the simpler client leaves nothing   *)
(* out that client.c's loop does.                                          *)
(***************************************************************************)
ClientTakesPart ==
  [][ClientNext /\ server = "open" => [Together!ClientNext(Me)]_(Together!vars)]_vars
=============================================================================
