---------------------------- MODULE ChatService ----------------------------
(***************************************************************************)
(* What the chat service does for its users, with no sockets, poll array   *)
(* or loop: users come and go, join rooms with a limited number of places, *)
(* take a name, and post messages that everyone else present in the room   *)
(* gets at once.  Each request is dealt with once, in the order the user   *)
(* made them, unless the user leaves.  Server implements it                *)
(* (ServerRefinement).                                                     *)
(***************************************************************************)
EXTENDS Messages, SequencesExt

CONSTANTS
  User,     \* identities of users (descriptors)
  Room,     \* the rooms
  Asked,    \* the room ids users ask for
  Name,     \* the names users may have
  Unnamed,  \* the name of a user that has not chosen one
  Capacity, \* places in a room
  Nowhere,  \* the room of a user that is in none
  Id        \* identities of chat messages

VARIABLES
  where,    \* the room of each user the service knows
  name,     \* the name of each user the service knows
  live,     \* users that are connected and have not left
  asks,     \* requests of each user not dealt with yet
  mail,     \* what has been given to each live user
  up        \* the service has not stopped

vars == <<where, name, live, asks, mail, up>>

Present(r) == {u \in DOMAIN where : where[u] = r}

Init ==
  /\ where = << >> /\ name = << >>
  /\ live = {}
  /\ asks = [u \in User |-> << >>]
  /\ mail = [u \in User |-> << >>]
  /\ up = TRUE

Arrive(u) ==
  /\ u \notin DOMAIN where
  /\ where' = [v \in DOMAIN where \cup {u} |-> IF v = u THEN Nowhere ELSE where[v]]
  /\ name' = [v \in DOMAIN name \cup {u} |-> IF v = u THEN Unnamed ELSE name[v]]
  /\ live' = live \cup {u}
  /\ UNCHANGED <<asks, mail, up>>

Ask(u) ==
  /\ u \in live
  /\ \E m \in Requests(Id, Asked, Name) : asks' = [asks EXCEPT ![u] = Append(@, m)]
  /\ UNCHANGED <<where, name, live, mail, up>>

(* The user leaves; the service does not know yet. *)
Depart(u) ==
  /\ u \in live
  /\ live' = live \ {u}
  /\ mail' = [mail EXCEPT ![u] = << >>]
  /\ UNCHANGED <<where, name, asks, up>>

(* The service notices, and the place in the room is free again. *)
Forget(u) ==
  /\ u \in DOMAIN where \ live
  /\ where' = [v \in DOMAIN where \ {u} |-> where[v]]
  /\ name' = [v \in DOMAIN name \ {u} |-> name[v]]
  /\ asks' = [asks EXCEPT ![u] = << >>]
  /\ UNCHANGED <<live, mail, up>>

-----------------------------------------------------------------------------
(* One more message for each live user of a set. *)
Give(users, m) ==
  mail' = [u \in User |-> IF u \in users \cap live THEN Append(mail[u], m) ELSE mail[u]]

(* The service takes up the user's oldest request, a message of a type. *)
TakeUp(u, type) ==
  /\ u \in DOMAIN where
  /\ asks[u] # << >> /\ Head(asks[u]).type = type
  /\ asks' = [asks EXCEPT ![u] = Tail(@)]
  /\ UNCHANGED <<live, up>>

(* Whether the author hears its own message is left open. *)
Post(u) ==
  /\ TakeUp(u, "CHAT")
  /\ IF where[u] = Nowhere
     THEN Give({u}, ReplyMessage("not_in_room", Nowhere))
     ELSE \E heard \in {Present(where[u]), Present(where[u]) \ {u}} :
            Give(heard, ChatMessage(Head(asks[u]).id, u, name[u], where[u]))
  /\ UNCHANGED <<where, name>>

Rename(u) ==
  /\ TakeUp(u, "NAME")
  /\ name' = [name EXCEPT ![u] = Head(asks[u]).name]
  /\ Give({u}, ReplyMessage("named", Nowhere))
  /\ UNCHANGED where

(* A user that asks for a full room is left without a room. *)
Join(u) ==
  /\ TakeUp(u, "JOIN")
  /\ LET r == Head(asks[u]).room
         Outcome(room, answer) ==
           where' = [where EXCEPT ![u] = room] /\ Give({u}, ReplyMessage(answer, r))
     IN \/ r \notin Room /\ Outcome(where[u], "no_such_room")
        \/ r \in Room /\ where[u] = r /\ Outcome(r, "already_in")
        \/ /\ r \in Room /\ where[u] # r
           /\ IF Cardinality(Present(r)) < Capacity
              THEN Outcome(r, "joined") ELSE Outcome(Nowhere, "full")
  /\ UNCHANGED name

(* The service stops.  It may have been giving out one message, which some *)
(* of its receivers then never get.                                        *)
Stop ==
  /\ up' = FALSE
  /\ \E missed \in SUBSET {u \in User : mail[u] # << >>} :
       /\ \A u, v \in missed : Last(mail[u]) = Last(mail[v])
       /\ mail' = [u \in User |-> IF u \in missed THEN Front(mail[u]) ELSE mail[u]]
  /\ UNCHANGED <<where, name, live, asks>>

Next ==
  /\ up
  /\ \/ Stop
     \/ \E u \in User :
          \/ Arrive(u) \/ Ask(u) \/ Depart(u) \/ Forget(u)
          \/ Post(u) \/ Rename(u) \/ Join(u)

Spec == Init /\ [][Next]_vars
=============================================================================
