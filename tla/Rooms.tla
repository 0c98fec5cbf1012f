------------------------------- MODULE Rooms -------------------------------
(***************************************************************************)
(* The chat rooms and the user table as data: types/room.c,                *)
(* data_structures/room_array.c and data_structures/user_table.c.  A room  *)
(* is the sequence of its users' ids, the table a function from user id to *)
(* the user's room and name.  A user's id is its socket descriptor.        *)
(***************************************************************************)
EXTENDS Arrays

CONSTANTS
  NumRooms,          \* NUM_ROOMS (5 in the code)
  MaxUsersPerRoom    \* MAX_USERS_PER_ROOM (25 in the code)

ASSUME RoomsAssumption ==
  /\ NumRooms \in 1 .. 255
  /\ MaxUsersPerRoom \in 1 .. 255

RoomId == 1 .. NumRooms

InvalidRoom == 0

room_array_init == [r \in RoomId |-> << >>]

(* room_array_get_room(rooms, id) # NULL *)
RoomExists(id) == id \in RoomId

RoomIsFull_OffByOne(room) == Len(room) = MaxUsersPerRoom + 1

RoomIsFull(room) == Len(room) = MaxUsersPerRoom

room_add_user(room, id) == Append(room, id)

(* The loop of room_remove_user: the first slot that holds id, or one past *)
(* the last slot if none does.                                             *)
SlotOf(room, id) ==
  CHOOSE k \in 1 .. (Len(room) + 1) :
    /\ k <= Len(room) => room[k] = id
    /\ \A j \in 1 .. (k - 1) : room[j] # id

room_remove_user(room, id) == SwapRemove(room, SlotOf(room, id))

(***************************************************************************)
(* The user table.                                                         *)
(***************************************************************************)
Anonymous == "anonymous"

NewUser_RoomNotSet == [room |-> NumRooms + 1, name |-> Anonymous]

NewUser == [room |-> InvalidRoom, name |-> Anonymous]

user_table_find(users, id) == id \in DOMAIN users

user_table_add(users, id) ==
  [u \in DOMAIN users \cup {id} |-> IF u = id THEN NewUser ELSE users[u]]

user_table_delete_Forgotten(users, id) == users

user_table_delete(users, id) == [u \in DOMAIN users \ {id} |-> users[u]]
=============================================================================
