---------------------------- MODULE MCChatRooms ----------------------------
(* ChatRooms for TLC: users chat, in short or long lines, and ask for the   *)
(* room.  A /name is answered as a /join of the same room is.               *)
EXTENDS ChatRooms

Short == ChatRequest(1)
Long == ChatRequest(2)
Join == JoinRequest(1)

OneSize == {Short, Join}
AllOne == [m \in OneSize |-> 1]

TwoSizes == {Short, Long, Join}
ShortOrLong == [m \in TwoSizes |-> IF m = Long THEN 2 ELSE 1]
Longer == [m \in TwoSizes |-> 2]
=============================================================================
